---- MODULE Spec2Model ----
(***************************************************************************)
(* Aggregation, tier classification and ranking of the Kodi repository     *)
(* tracker (scripts/processors/aggregator.py, scripts/processors/ranker.py *)
(* as driven by scripts/main.py).                                          *)
(*                                                                         *)
(* Repository records are Python dicts that are shared by reference and    *)
(* updated in place, so the model keeps a heap of dict objects (heap[i] is *)
(* the dict with identity i) and every list is a sequence of identities.   *)
(* A dict is a function from field names to values; a field the dict does  *)
(* not have is outside its DOMAIN.  Strings that the code transforms       *)
(* (owner, name) are sequences of characters.                              *)
(*                                                                         *)
(* pc is the position in the pipeline of main: "collected", "aggregated",  *)
(* "ranked", or "error" once a processor has raised.  A function that is   *)
(* called on its own (not through main) takes its arguments from calls and *)
(* leaves what it returns in rets; pc is then "calling" or "returned".     *)
(* In a whole run of main (SpecMain) pc names the statement of main that   *)
(* was completed last, files is the set of output files written so far,    *)
(* log holds the error and final messages main has logged and poc_mode is  *)
(* config.POC_MODE.                                                        *)
(***************************************************************************)
EXTENDS Integers, Sequences, FiniteSets, TLC

VARIABLES heap, github_repos, gitlab_repos, bitbucket_repos,
          reddit_data, rss_data, aggregated_repos,
          established, rising, new, pc, calls, rets, files, log, poc_mode

vars == <<heap, github_repos, gitlab_repos, bitbucket_repos,
          reddit_data, rss_data, aggregated_repos,
          established, rising, new, pc, calls, rets, files, log, poc_mode>>

(***************************************************************************)
(* Bounds of the model.                                                    *)
(***************************************************************************)
\* greatest number of records over the three platform lists (Spec)
MaxRepos == 3
\* greatest number of records classified together (SpecClassify)
MaxClassify == 2
\* greatest number of records ranked together (SpecRank)
MaxRank == 3

(***************************************************************************)
(* Generic helpers.                                                        *)
(***************************************************************************)
Range(s) == {s[i] : i \in DOMAIN s}

BoundedSeq(S, n) == UNION {[1..k -> S] : k \in 0..n}

\* the sequence lo, lo+1, .., hi (empty when hi < lo)
Interval(lo, hi) == [k \in 1..(hi - lo + 1) |-> lo + k - 1]

\* dict.get(f, d)
Get(r, f, d) == IF f \in DOMAIN r THEN r[f] ELSE d

\* r[f] = v on a dict
SetField(r, f, v) == [k \in (DOMAIN r) \cup {f} |-> IF k = f THEN v ELSE r[k]]

\* the dict with no key
EmptyDict == [k \in {} |-> 0]

(***************************************************************************)
(* str.lower() on the alphabet of the model.                               *)
(***************************************************************************)
LowerChar(c) ==
    CASE c = "A" -> "a"
      [] c = "B" -> "b"
      [] c = "C" -> "c"
      [] c = "D" -> "d"
      [] OTHER -> c

Lower(s) == [i \in DOMAIN s |-> LowerChar(s[i])]

\* the key without the lower-casing
DedupKeyCaseSensitive(repo) == repo["owner"] \o <<"/">> \o repo["name"]

\* f"{repo['owner'].lower()}/{repo['name'].lower()}"
DedupKey(repo) == Lower(repo["owner"]) \o <<"/">> \o Lower(repo["name"])

(***************************************************************************)
(* _deduplicate_repos.  repo_groups is a Python dict, which keeps its keys *)
(* in insertion order: a sequence of [key, group] entries.                 *)
(***************************************************************************)
GroupIndex(groups, key) ==
    IF \E j \in DOMAIN groups : groups[j].key = key
    THEN CHOOSE j \in DOMAIN groups : groups[j].key = key
    ELSE 0

\* one iteration of "for repo in repos" over the grouping dict
AddToGroups(groups, key, id) ==
    LET j == GroupIndex(groups, key) IN
    IF j = 0
    THEN Append(groups, [key |-> key, group |-> <<id>>])
    ELSE [groups EXCEPT ![j].group = Append(@, id)]

RECURSIVE BuildGroups(_, _, _, _)
BuildGroups(h, repos, i, groups) ==
    IF i > Len(repos) THEN groups
    ELSE BuildGroups(h, repos, i + 1,
                     AddToGroups(groups, DedupKey(h[repos[i]]), repos[i]))

\* replacing the best also on an equal value: the last maximum
MaxStepLast(h, best, id) ==
    IF h[id]["stars"] >= h[best]["stars"] THEN id ELSE best

\* replacing the best only on a strictly greater value: the first maximum
MaxStep(h, best, id) ==
    IF h[id]["stars"] > h[best]["stars"] THEN id ELSE best

\* max(group, key=lambda r: r['stars']) on a non-empty group
RECURSIVE MaxByStars(_, _, _, _)
MaxByStars(h, group, i, best) ==
    IF i > Len(group) THEN best
    ELSE MaxByStars(h, group, i + 1, MaxStep(h, best, group[i]))

\* keeping the first member of the group whatever its stars
BestOfGroupFirst(h, group) == group[1]

BestOfGroup(h, group) ==
    IF Len(group) = 1 THEN group[1]
    ELSE MaxByStars(h, group, 2, group[1])

DeduplicateRepos(h, repos) ==
    LET groups == BuildGroups(h, repos, 1, <<>>) IN
    [j \in DOMAIN groups |-> BestOfGroup(h, groups[j].group)]

\* r['stars'] raises KeyError: max() reads the stars of every member of a
\* group of two or more
DedupRaises(h, repos) ==
    LET groups == BuildGroups(h, repos, 1, <<>>) IN
    \E j \in DOMAIN groups :
        /\ Len(groups[j].group) > 1
        /\ \E k \in DOMAIN groups[j].group : "stars" \notin DOMAIN h[groups[j].group[k]]

(***************************************************************************)
(* aggregate_data: concatenation, deduplication, social-signal merge.      *)
(***************************************************************************)
\* the Reddit merge adding the mentions to those the record already has
MergeRedditAccumulate(repo, reddit) ==
    LET repo_url == repo["repo_url"] IN
    IF repo_url \in DOMAIN reddit
    THEN SetField(SetField(SetField(repo,
             "reddit_mentions", Get(repo, "reddit_mentions", 0)
                                    + Get(reddit[repo_url], "reddit_mentions", 0)),
             "reddit_upvotes", Get(reddit[repo_url], "reddit_upvotes", 0)),
             "recent_mentions_30d", Get(reddit[repo_url], "recent_mentions_30d", 0))
    ELSE SetField(SetField(SetField(repo,
             "reddit_mentions", 0),
             "reddit_upvotes", 0),
             "recent_mentions_30d", 0)

\* the Reddit merge falling back on some other entry of the map when the
\* record's own URL has none
MergeRedditFallback(repo, reddit) ==
    LET repo_url == IF repo["repo_url"] \in DOMAIN reddit \/ DOMAIN reddit = {}
                    THEN repo["repo_url"]
                    ELSE CHOOSE u \in DOMAIN reddit : TRUE
    IN
    IF repo_url \in DOMAIN reddit
    THEN SetField(SetField(SetField(repo,
             "reddit_mentions", Get(reddit[repo_url], "reddit_mentions", 0)),
             "reddit_upvotes", Get(reddit[repo_url], "reddit_upvotes", 0)),
             "recent_mentions_30d", Get(reddit[repo_url], "recent_mentions_30d", 0))
    ELSE SetField(SetField(SetField(repo,
             "reddit_mentions", 0),
             "reddit_upvotes", 0),
             "recent_mentions_30d", 0)

\* the Reddit merge without its else branch: no defaults for a repository
\* the map does not have
MergeRedditNoElse(repo, reddit) ==
    LET repo_url == repo["repo_url"] IN
    IF repo_url \in DOMAIN reddit
    THEN SetField(SetField(SetField(repo,
             "reddit_mentions", Get(reddit[repo_url], "reddit_mentions", 0)),
             "reddit_upvotes", Get(reddit[repo_url], "reddit_upvotes", 0)),
             "recent_mentions_30d", Get(reddit[repo_url], "recent_mentions_30d", 0))
    ELSE repo

MergeReddit(repo, reddit) ==
    LET repo_url == repo["repo_url"] IN
    IF repo_url \in DOMAIN reddit
    THEN SetField(SetField(SetField(repo,
             "reddit_mentions", Get(reddit[repo_url], "reddit_mentions", 0)),
             "reddit_upvotes", Get(reddit[repo_url], "reddit_upvotes", 0)),
             "recent_mentions_30d", Get(reddit[repo_url], "recent_mentions_30d", 0))
    ELSE SetField(SetField(SetField(repo,
             "reddit_mentions", 0),
             "reddit_upvotes", 0),
             "recent_mentions_30d", 0)

\* the RSS merge with a plain copy of the entry's fields, no default
MergeRssNoDefault(repo, rss) ==
    LET repo_url == repo["repo_url"] IN
    IF repo_url \in DOMAIN rss
    THEN IF "web_mentions" \in DOMAIN rss[repo_url]
         THEN SetField(repo, "web_mentions", rss[repo_url]["web_mentions"])
         ELSE repo
    ELSE SetField(repo, "web_mentions", 0)

MergeRss(repo, rss) ==
    LET repo_url == repo["repo_url"] IN
    IF repo_url \in DOMAIN rss
    THEN SetField(repo, "web_mentions", Get(rss[repo_url], "web_mentions", 0))
    ELSE SetField(repo, "web_mentions", 0)

\* "for repo in deduplicated": the dicts are updated in place
RECURSIVE MergeSocial(_, _, _, _, _)
MergeSocial(h, deduplicated, i, reddit, rss) ==
    IF i > Len(deduplicated) THEN h
    ELSE LET id == deduplicated[i] IN
         MergeSocial([h EXCEPT ![id] = MergeRss(MergeReddit(h[id], reddit), rss)],
                     deduplicated, i + 1, reddit, rss)

AllRepos == github_repos \o gitlab_repos \o bitbucket_repos

\* aggregate_data on the heap h: whether it raised, the heap it leaves and
\* the list it returns
\* aggregate_data with the merge loop run over all_repos instead of the
\* deduplicated list
AggregateDataMergeAll(h, github, gitlab, bitbucket, reddit, rss) ==
    LET all_repos == github \o gitlab \o bitbucket IN
    IF DedupRaises(h, all_repos)
    THEN [raised |-> TRUE, heap |-> h, ret |-> <<>>]
    ELSE [raised |-> FALSE,
          heap |-> MergeSocial(h, all_repos, 1, reddit, rss),
          ret |-> DeduplicateRepos(h, all_repos)]

AggregateData(h, github, gitlab, bitbucket, reddit, rss) ==
    LET all_repos == github \o gitlab \o bitbucket IN
    IF DedupRaises(h, all_repos)
    THEN [raised |-> TRUE, heap |-> h, ret |-> <<>>]
    ELSE LET deduplicated == DeduplicateRepos(h, all_repos) IN
         [raised |-> FALSE,
          heap |-> MergeSocial(h, deduplicated, 1, reddit, rss),
          ret |-> deduplicated]

\* main, step 2: aggregated_repos = aggregate_data(...)
Aggregate ==
    /\ pc = "collected"
    /\ \E r \in {AggregateData(heap, github_repos, gitlab_repos, bitbucket_repos,
                                reddit_data, rss_data)} :
           /\ heap' = r.heap
           /\ aggregated_repos' = r.ret
           /\ pc' = IF r.raised THEN "error" ELSE "aggregated"
    /\ UNCHANGED <<github_repos, gitlab_repos, bitbucket_repos,
                   reddit_data, rss_data, established, rising, new, calls, rets,
                   files, log, poc_mode>>

(***************************************************************************)
(* Configuration constants (scripts/config.py).  Weights are in tenths.    *)
(***************************************************************************)
TIER_AGE_THRESHOLDS == [new |-> 90, rising |-> 365]

GROWTH_THRESHOLDS == [star_velocity_per_month |-> 10]

ESTABLISHED_WEIGHTS == [stars |-> 6, recent_activity |-> 2, social_signals |-> 2]

\* the rising table with 0.4 for the stars: the weights sum to 1.1
RisingWeightsHeavy ==
    [growth_rate |-> 4, stars |-> 4, recent_activity |-> 2, social_signals |-> 1]

RISING_WEIGHTS ==
    [growth_rate |-> 4, stars |-> 3, recent_activity |-> 2, social_signals |-> 1]

NEW_WEIGHTS == [recent_activity |-> 5, stars |-> 3, social_signals |-> 2]

(***************************************************************************)
(* _log_scale.  Reals are fixed-point integers: a normalised value is an   *)
(* integer number of millionths (LogOne is 1.0) and a composite score an   *)
(* integer number of 10^-8 (a weight in tenths times a sub-weight in       *)
(* tenths times millionths).  math.log is computed as a binary logarithm   *)
(* with FracBits fractional bits; the quotient of two logarithms does not  *)
(* depend on the base.                                                     *)
(***************************************************************************)
LogOne == 1000000

FracBits == 20

\* floor(log2(x)) for x >= 1
RECURSIVE FloorLog2(_)
FloorLog2(x) == IF x < 2 THEN 0 ELSE 1 + FloorLog2(x \div 2)

RECURSIVE Pow2(_)
Pow2(n) == IF n = 0 THEN 1 ELSE 2 * Pow2(n - 1)

\* 1.0 as a fixed-point mantissa
FixOne == Pow2(FracBits)

\* y * y for a fixed-point y in [1, 2), without leaving 32 bits
FixSquare(y) ==
    LET a == y \div 1024
        b == y % 1024
    IN  a * a + ((2 * a * b + ((b * b) \div 1024)) \div 1024)

\* the fractional bits of log2 of the mantissa y, by repeated squaring
RECURSIVE FracLog2(_, _, _)
FracLog2(y, n, acc) ==
    IF n = 0 THEN acc
    ELSE LET sq == FixSquare(y) IN
         IF sq >= 2 * FixOne
         THEN FracLog2(sq \div 2, n - 1, 2 * acc + 1)
         ELSE FracLog2(sq, n - 1, 2 * acc)

\* math.log(x) for an integer 1 <= x < 2^20, in units of ln(2) / FixOne
LogOf(x) ==
    LET e == FloorLog2(x)
        y == x * Pow2(FracBits - e)
    IN  e * FixOne + FracLog2(y, FracBits, 0)

LogTable == [x \in 1..(10000 - 20 + 1) |-> LogOf(x)]

Log(x) == LogTable[x]

\* num / den for 0 <= num < den, to n decimal digits
RECURSIVE FixDiv(_, _, _, _)
FixDiv(r, den, n, q) ==
    IF n = 0 THEN q
    ELSE FixDiv((r * 10) % den, den, n - 1, q * 10 + ((r * 10) \div den))

Min2(a, b) == IF a < b THEN a ELSE b

Max2(a, b) == IF a > b THEN a ELSE b

\* the scale without the "+ 1" on the value
LogScaleNoShift(value, min_val, max_val) ==
    IF value <= min_val THEN 0
    ELSE IF value >= max_val THEN LogOne
    ELSE LET shifted_val == value - min_val
             shifted_max == max_val - min_val + 1
             normalized == FixDiv(Log(shifted_val), Log(shifted_max), 6, 0)
         IN  Max2(0, Min2(LogOne, normalized))

\* the scale without the "+ 1" on the maximum
LogScaleShortMax(value, min_val, max_val) ==
    IF value <= min_val THEN 0
    ELSE IF value >= max_val THEN LogOne
    ELSE LET shifted_val == value - min_val + 1
             shifted_max == max_val - min_val
             normalized == FixDiv(Log(shifted_val), Log(shifted_max), 6, 0)
         IN  Max2(0, Min2(LogOne, normalized))

LogScale(value, min_val, max_val) ==
    IF value <= min_val THEN 0
    ELSE IF value >= max_val THEN LogOne
    ELSE LET shifted_val == value - min_val + 1
             shifted_max == max_val - min_val + 1
             normalized == FixDiv(Log(shifted_val), Log(shifted_max), 6, 0)
         IN  Max2(0, Min2(LogOne, normalized))

(***************************************************************************)
(* _calculate_score                                                        *)
(***************************************************************************)
StarsScore(repo, weights) ==
    IF "stars" \in DOMAIN weights
    THEN LogScale(Get(repo, "stars", 0), 20, 10000) * 10 * weights["stars"]
    ELSE 0

ActivityScore(repo, weights) ==
    IF "recent_activity" \in DOMAIN weights
    THEN LogScale(Get(repo, "recent_commits_count", 0), 1, 100) * 10
             * weights["recent_activity"]
    ELSE 0

SocialScore(repo, weights) ==
    IF "social_signals" \in DOMAIN weights
    THEN ( LogScale(Get(repo, "reddit_mentions", 0), 0, 50) * 4
         + LogScale(Get(repo, "reddit_upvotes", 0), 0, 500) * 4
         + LogScale(Get(repo, "web_mentions", 0), 0, 10) * 2 )
             * weights["social_signals"]
    ELSE 0

\* the growth component with the two sub-weights exchanged
GrowthScoreSwapped(repo, weights) ==
    IF "growth_rate" \in DOMAIN weights
    THEN ( LogScale(Get(repo, "star_velocity_30d", 0), 0, 100) * 4
         + LogScale(Get(repo, "recent_mentions_30d", 0), 0, 20) * 6 )
             * weights["growth_rate"]
    ELSE 0

GrowthScore(repo, weights) ==
    IF "growth_rate" \in DOMAIN weights
    THEN ( LogScale(Get(repo, "star_velocity_30d", 0), 0, 100) * 6
         + LogScale(Get(repo, "recent_mentions_30d", 0), 0, 20) * 4 )
             * weights["growth_rate"]
    ELSE 0

\* the score with "score =" in place of "score +=": the last component only
CalculateScoreOverwrite(repo, weights, tier_name) ==
    IF "growth_rate" \in DOMAIN weights THEN GrowthScore(repo, weights)
    ELSE IF "social_signals" \in DOMAIN weights THEN SocialScore(repo, weights)
    ELSE IF "recent_activity" \in DOMAIN weights THEN ActivityScore(repo, weights)
    ELSE StarsScore(repo, weights)

CalculateScore(repo, weights, tier_name) ==
    StarsScore(repo, weights) + ActivityScore(repo, weights)
        + SocialScore(repo, weights) + GrowthScore(repo, weights)

(***************************************************************************)
(* _rank_tier                                                              *)
(***************************************************************************)
\* the weight selection with the rising table for every tier
TierWeightsAllRising(tier_name) == RISING_WEIGHTS

TierWeights(tier_name) ==
    IF tier_name = "established" THEN ESTABLISHED_WEIGHTS
    ELSE IF tier_name = "rising" THEN RISING_WEIGHTS
    ELSE NEW_WEIGHTS

\* "for repo in repos: repo['composite_score'] = score"
RECURSIVE ScoreLoop(_, _, _, _)
ScoreLoop(h, repos, i, tier_name) ==
    IF i > Len(repos) THEN h
    ELSE LET id == repos[i]
             score == CalculateScore(h[id], TierWeights(tier_name), tier_name)
         IN  ScoreLoop([h EXCEPT ![id] = SetField(h[id], "composite_score", score)],
                       repos, i + 1, tier_name)

\* the position of an ascending sort (reverse=True forgotten)
InsertPosAscending(h, sorted, id) ==
    Cardinality({j \in DOMAIN sorted :
        h[sorted[j]]["composite_score"] <= h[id]["composite_score"]})

\* the position of a descending sort that puts a record before its equals
InsertPosUnstable(h, sorted, id) ==
    Cardinality({j \in DOMAIN sorted :
        h[sorted[j]]["composite_score"] > h[id]["composite_score"]})

\* the position at which a stable descending sort puts id into the sorted
\* prefix: after every element whose score is greater than or equal to its own
InsertPos(h, sorted, id) ==
    Cardinality({j \in DOMAIN sorted :
        h[sorted[j]]["composite_score"] >= h[id]["composite_score"]})

InsertAt(s, k, x) == SubSeq(s, 1, k) \o <<x>> \o SubSeq(s, k + 1, Len(s))

\* sorted(repos, key=lambda r: r['composite_score'], reverse=True)
RECURSIVE SortedByScore(_, _, _, _)
SortedByScore(h, repos, i, sorted) ==
    IF i > Len(repos) THEN sorted
    ELSE SortedByScore(h, repos, i + 1,
                       InsertAt(sorted, InsertPos(h, sorted, repos[i]), repos[i]))

\* the rank without the "+ 1": enumerate's 0-based index itself
RankAtZeroBased(i) == i - 1

\* the rank given to the element at 1-based position i (enumerate's i + 1)
RankAt(i) == i

\* the ranking loop leaving the dicts it was given untouched
RankLoopNoWrite(h, repos_sorted, i) == h

\* "for i, repo in enumerate(repos_sorted): repo['rank_in_tier'] = i + 1"
RECURSIVE RankLoop(_, _, _)
RankLoop(h, repos_sorted, i) ==
    IF i > Len(repos_sorted) THEN h
    ELSE LET id == repos_sorted[i] IN
         RankLoop([h EXCEPT ![id] = SetField(h[id], "rank_in_tier", RankAt(i))],
                  repos_sorted, i + 1)

\* the result of _rank_tier: the heap after it and the list it returns
RankTier(h, repos, tier_name) ==
    IF repos = <<>> THEN [heap |-> h, ranked |-> <<>>]
    ELSE LET scored == ScoreLoop(h, repos, 1, tier_name)
             repos_sorted == SortedByScore(scored, repos, 1, <<>>)
         IN  [heap |-> RankLoop(scored, repos_sorted, 1), ranked |-> repos_sorted]

(***************************************************************************)
(* _has_growth_signals and classify_and_rank                               *)
(***************************************************************************)
\* the commit test as its comment words it ("at least 10 commits")
HasGrowthSignalsAtLeast(repo) ==
    IF Get(repo, "star_velocity_30d", 0) > GROWTH_THRESHOLDS["star_velocity_per_month"]
    THEN TRUE
    ELSE IF Get(repo, "recent_mentions_30d", 0) > 0 THEN TRUE
    ELSE IF Get(repo, "web_mentions", 0) > 0 THEN TRUE
    ELSE IF Get(repo, "recent_commits_count", 0) >= 10 THEN TRUE
    ELSE FALSE

HasGrowthSignals(repo) ==
    IF Get(repo, "star_velocity_30d", 0) > GROWTH_THRESHOLDS["star_velocity_per_month"]
    THEN TRUE
    ELSE IF Get(repo, "recent_mentions_30d", 0) > 0 THEN TRUE
    ELSE IF Get(repo, "web_mentions", 0) > 0 THEN TRUE
    ELSE IF Get(repo, "recent_commits_count", 0) > 10 THEN TRUE
    ELSE FALSE

\* the tier with the upper age test written "<="
TierOfUpperInclusive(repo) ==
    LET age_days == repo["age_days"] IN
    IF age_days < TIER_AGE_THRESHOLDS["new"] THEN "new"
    ELSE IF age_days <= TIER_AGE_THRESHOLDS["rising"]
         THEN IF HasGrowthSignals(repo) THEN "rising" ELSE "established"
    ELSE "established"

\* the tier with the lower age test written "<="
TierOfLowerInclusive(repo) ==
    LET age_days == repo["age_days"] IN
    IF age_days <= TIER_AGE_THRESHOLDS["new"] THEN "new"
    ELSE IF age_days < TIER_AGE_THRESHOLDS["rising"]
         THEN IF HasGrowthSignals(repo) THEN "rising" ELSE "established"
    ELSE "established"

\* the tier the loop body of classify_and_rank decides for one record
TierOf(repo) ==
    LET age_days == repo["age_days"] IN
    IF age_days < TIER_AGE_THRESHOLDS["new"] THEN "new"
    ELSE IF age_days < TIER_AGE_THRESHOLDS["rising"]
         THEN IF HasGrowthSignals(repo) THEN "rising" ELSE "established"
    ELSE "established"

\* the loop body once more, with the branch of a record of the middle age
\* band that shows no growth left out: the record reaches no list
ClassifyStepNoElse(st, id) ==
    LET tier == TierOf(st.heap[id])
        mid == /\ st.heap[id]["age_days"] >= TIER_AGE_THRESHOLDS["new"]
               /\ st.heap[id]["age_days"] < TIER_AGE_THRESHOLDS["rising"]
    IN  [heap |-> [st.heap EXCEPT ![id] = SetField(st.heap[id], "tier", tier)],
         established |-> IF tier = "established" /\ ~mid
                         THEN Append(st.established, id) ELSE st.established,
         rising |-> IF tier = "rising" THEN Append(st.rising, id) ELSE st.rising,
         new |-> IF tier = "new" THEN Append(st.new, id) ELSE st.new]

\* the loop body of classify_and_rank: append the record to its tier's
\* list and set repo['tier']
ClassifyStep(st, id) ==
    LET tier == TierOf(st.heap[id]) IN
    [heap |-> [st.heap EXCEPT ![id] = SetField(st.heap[id], "tier", tier)],
     established |-> IF tier = "established"
                     THEN Append(st.established, id) ELSE st.established,
     rising |-> IF tier = "rising" THEN Append(st.rising, id) ELSE st.rising,
     new |-> IF tier = "new" THEN Append(st.new, id) ELSE st.new]

\* "for repo in repositories"
RECURSIVE ClassifyLoop(_, _, _)
ClassifyLoop(st, repositories, i) ==
    IF i > Len(repositories) THEN st
    ELSE ClassifyLoop(ClassifyStep(st, repositories[i]), repositories, i + 1)

\* the number of records classified before repo['age_days'] raises
\* KeyError: the records before the first one without the field
ClassifiedBeforeRaise(h, repositories) ==
    LET missing == {k \in DOMAIN repositories : "age_days" \notin DOMAIN h[repositories[k]]}
    IN  IF missing = {} THEN Len(repositories)
        ELSE (CHOOSE k \in missing : \A j \in missing : k <= j) - 1

\* classify_and_rank on the heap h: whether it raised, the heap it leaves
\* and the three lists it returns
ClassifyAndRankOf(h, repositories) ==
    LET n == ClassifiedBeforeRaise(h, repositories)
        classified == ClassifyLoop([heap |-> h, established |-> <<>>,
                                    rising |-> <<>>, new |-> <<>>],
                                   SubSeq(repositories, 1, n), 1)
    IN  IF n < Len(repositories)
        THEN [raised |-> TRUE, heap |-> classified.heap,
              established |-> <<>>, rising |-> <<>>, new |-> <<>>]
        ELSE LET established_ranked == RankTier(classified.heap,
                                                classified.established, "established")
                 rising_ranked == RankTier(established_ranked.heap,
                                           classified.rising, "rising")
                 new_ranked == RankTier(rising_ranked.heap, classified.new, "new")
             IN  [raised |-> FALSE, heap |-> new_ranked.heap,
                  established |-> established_ranked.ranked,
                  rising |-> rising_ranked.ranked,
                  new |-> new_ranked.ranked]

\* main, step 3: established, rising, new = classify_and_rank(aggregated_repos)
ClassifyAndRank ==
    /\ pc = "aggregated"
    /\ \E r \in {ClassifyAndRankOf(heap, aggregated_repos)} :
       /\ heap' = r.heap
       /\ established' = r.established
       /\ rising' = r.rising
       /\ new' = r.new
       /\ pc' = IF r.raised THEN "error" ELSE "ranked"
    /\ UNCHANGED <<github_repos, gitlab_repos, bitbucket_repos,
                   reddit_data, rss_data, aggregated_repos, calls, rets,
                   files, log, poc_mode>>

Next == Aggregate \/ ClassifyAndRank

(***************************************************************************)
(* Inputs.  A collector builds one fresh dict per repository (the fields   *)
(* the processors read are kept); the platform lists hold the dicts in     *)
(* collection order.                                                       *)
(***************************************************************************)
RepoDict(owner, name, repo_url, stars, age_days) ==
    [owner |-> owner, name |-> name, repo_url |-> repo_url,
     stars |-> stars, age_days |-> age_days]

PlatformOf(i, g, l) ==
    IF i <= g THEN "github" ELSE IF i <= g + l THEN "gitlab" ELSE "bitbucket"

\* the state handed to aggregate_data: the first g dicts of recs were
\* collected from GitHub, the next l from GitLab, the rest from Bitbucket
Collected(recs, g, l, reddit, rss) ==
    /\ heap = [i \in DOMAIN recs |-> SetField(recs[i], "platform", PlatformOf(i, g, l))]
    /\ github_repos = Interval(1, g)
    /\ gitlab_repos = Interval(g + 1, g + l)
    /\ bitbucket_repos = Interval(g + l + 1, Len(recs))
    /\ reddit_data = reddit
    /\ rss_data = rss
    /\ aggregated_repos = <<>>
    /\ established = <<>>
    /\ rising = <<>>
    /\ new = <<>>
    /\ pc = "collected"
    /\ calls = <<>>
    /\ rets = <<>>
    /\ files = {}
    /\ log = <<>>
    /\ poc_mode = FALSE

(***************************************************************************)
(* Spec: inputs that exercise deduplication and the social merge.  The     *)
(* same project under two spellings, an unrelated project, equal and       *)
(* different star counts, social maps with missing entries and entries     *)
(* with missing fields.                                                    *)
(***************************************************************************)
AggIdents ==
    { [owner |-> <<"a">>, name |-> <<"b">>, repo_url |-> "u1"],
      [owner |-> <<"A">>, name |-> <<"B">>, repo_url |-> "u2"],
      [owner |-> <<"c">>, name |-> <<"d">>, repo_url |-> "u1"] }

AggStars == {200, 500}

AggPool ==
    { SetField(RepoDict(x.owner, x.name, x.repo_url, s, 400), "recent_commits_count", 5) :
          x \in AggIdents, s \in AggStars }

RedditMaps ==
    { EmptyDict,
      "u1" :> [reddit_mentions |-> 10, reddit_upvotes |-> 200, recent_mentions_30d |-> 1],
      ("u1" :> [reddit_mentions |-> 3])
          @@ ("u2" :> [reddit_mentions |-> 2, reddit_upvotes |-> 7, recent_mentions_30d |-> 0]) }

RssMaps ==
    { EmptyDict,
      "u1" :> [web_mentions |-> 1],
      ("u2" :> EmptyDict) }

Init ==
    \E recs \in BoundedSeq(AggPool, MaxRepos) :
        \E g \in 0..Len(recs) :
            \E l \in 0..(Len(recs) - g) :
                \E reddit \in RedditMaps, rss \in RssMaps :
                    Collected(recs, g, l, reddit, rss)

Spec == Init /\ [][Next]_vars

(***************************************************************************)
(* SpecClassify and SpecRank: inputs with one repository per project.  A   *)
(* profile gives the values the collectors found for one repository: an    *)
(* optional value is a sequence of length at most one, the empty sequence  *)
(* meaning that the dict (or the social map) has no such entry.            *)
(***************************************************************************)
Urls == <<"u1", "u2", "u3", "u4", "u5">>

Profile(age_days, stars, commits, velocity, reddit, rss) ==
    [age_days |-> age_days, stars |-> stars, commits |-> commits,
     velocity |-> velocity, reddit |-> reddit, rss |-> rss]

WithOptional(r, f, opt) == IF opt = <<>> THEN r ELSE SetField(r, f, opt[1])

\* the dict collected for the i-th repository, of profile p
ProfileDict(p, i) ==
    WithOptional(
        WithOptional(
            RepoDict(<<"a">>, [k \in 1..i |-> "r"], Urls[i], p.stars, p.age_days),
            "recent_commits_count", p.commits),
        "star_velocity_30d", p.velocity)

ProfileReddit(ps) ==
    [u \in {Urls[i] : i \in {j \in DOMAIN ps : ps[j].reddit # <<>>}} |->
        LET i == CHOOSE j \in DOMAIN ps : Urls[j] = u IN ps[i].reddit[1]]

ProfileRss(ps) ==
    [u \in {Urls[i] : i \in {j \in DOMAIN ps : ps[j].rss # <<>>}} |->
        LET i == CHOOSE j \in DOMAIN ps : Urls[j] = u IN ps[i].rss[1]]

CollectedProfiles(ps) ==
    Collected([i \in DOMAIN ps |-> ProfileDict(ps[i], i)], Len(ps), 0,
              ProfileReddit(ps), ProfileRss(ps))

RedditEntry(mentions, upvotes, recent) ==
    [reddit_mentions |-> mentions, reddit_upvotes |-> upvotes,
     recent_mentions_30d |-> recent]

\* the growth signals around their thresholds: nothing known, everything at
\* its threshold, each signal alone just above its threshold, all of them
SignalCases ==
    { [commits |-> <<>>,   velocity |-> <<>>,   reddit |-> <<>>, rss |-> <<>>],
      [commits |-> <<10>>, velocity |-> <<10>>,
       reddit |-> <<RedditEntry(0, 0, 0)>>, rss |-> <<[web_mentions |-> 0]>>],
      [commits |-> <<10>>, velocity |-> <<11>>,
       reddit |-> <<RedditEntry(0, 0, 0)>>, rss |-> <<[web_mentions |-> 0]>>],
      [commits |-> <<10>>, velocity |-> <<>>,
       reddit |-> <<RedditEntry(1, 0, 1)>>, rss |-> <<>>],
      [commits |-> <<>>, velocity |-> <<10>>,
       reddit |-> <<>>, rss |-> <<[web_mentions |-> 1]>>],
      [commits |-> <<11>>, velocity |-> <<>>,
       reddit |-> <<RedditEntry(1, 5, 0)>>, rss |-> <<EmptyDict>>],
      [commits |-> <<11>>, velocity |-> <<11>>,
       reddit |-> <<RedditEntry(1, 5, 1)>>, rss |-> <<[web_mentions |-> 1]>>] }

ClassifyAges == {89, 90, 200, 364, 365}

ClassifyProfiles ==
    { Profile(a, 100, c.commits, c.velocity, c.reddit, c.rss) :
          a \in ClassifyAges, c \in SignalCases }

InitClassify ==
    \E ps \in BoundedSeq(ClassifyProfiles, MaxClassify) : CollectedProfiles(ps)

SpecClassify == InitClassify /\ [][Next]_vars

\* profiles for each tier, with different scores; the third is of the middle
\* age band and shows no growth
RankProfiles ==
    { Profile(500, 5000, <<50>>, <<>>, <<RedditEntry(10, 200, 0)>>, <<[web_mentions |-> 0]>>),
      Profile(400, 100, <<5>>, <<>>, <<>>, <<>>),
      Profile(400, 5000, <<5>>, <<>>, <<>>, <<>>),
      Profile(200, 300, <<10>>, <<10>>, <<>>, <<>>),
      Profile(200, 100, <<5>>, <<>>, <<RedditEntry(1, 0, 1)>>, <<>>),
      Profile(200, 5000, <<50>>, <<50>>, <<>>, <<>>),
      Profile(30, 100, <<5>>, <<>>, <<>>, <<>>),
      Profile(30, 5000, <<50>>, <<>>, <<>>, <<[web_mentions |-> 2]>>) }

InitRank ==
    \E ps \in BoundedSeq(RankProfiles, MaxRank) : CollectedProfiles(ps)

SpecRank == InitRank /\ [][Next]_vars

(***************************************************************************)
(* SpecLog: _log_scale called on its own, twice with the same calibration  *)
(* pair, on a value and on a value at most MaxLogGap above it.  The        *)
(* calibration pairs are those of _calculate_score; the values run over    *)
(* every integer from below the minimum to above the maximum.              *)
(***************************************************************************)
\* greatest distance between the two values of a run
MaxLogGap == 1

Calibrations ==
    { [min_val |-> 20, max_val |-> 10000],
      [min_val |-> 1, max_val |-> 100],
      [min_val |-> 0, max_val |-> 50],
      [min_val |-> 0, max_val |-> 500],
      [min_val |-> 0, max_val |-> 10],
      [min_val |-> 0, max_val |-> 100],
      [min_val |-> 0, max_val |-> 20] }

LogCall(value, c) ==
    [fn |-> "_log_scale", value |-> value, min_val |-> c.min_val, max_val |-> c.max_val]

\* no pipeline data: the state of a run that only calls functions
NoPipeline ==
    /\ heap = <<>>
    /\ github_repos = <<>>
    /\ gitlab_repos = <<>>
    /\ bitbucket_repos = <<>>
    /\ reddit_data = EmptyDict
    /\ rss_data = EmptyDict
    /\ aggregated_repos = <<>>
    /\ established = <<>>
    /\ rising = <<>>
    /\ new = <<>>

InitLog ==
    \E c \in Calibrations :
        \E v \in (c.min_val - MaxLogGap - 1)..(c.max_val + 1) :
            \E gap \in 0..MaxLogGap :
                /\ NoPipeline
                /\ pc = "calling"
                /\ calls = <<LogCall(v, c), LogCall(v + gap, c)>>
                /\ rets = <<>>
                /\ files = {}
                /\ log = <<>>
                /\ poc_mode = FALSE

\* the next pending call is made and its result recorded with its arguments
CallLogScale ==
    /\ pc = "calling"
    /\ calls # <<>>
    /\ Head(calls).fn = "_log_scale"
    /\ LET c == Head(calls) IN
       rets' = Append(rets, [value |-> c.value, min_val |-> c.min_val,
                             max_val |-> c.max_val,
                             result |-> LogScale(c.value, c.min_val, c.max_val)])
    /\ calls' = Tail(calls)
    /\ pc' = IF Tail(calls) = <<>> THEN "returned" ELSE "calling"
    /\ UNCHANGED <<heap, github_repos, gitlab_repos, bitbucket_repos,
                   reddit_data, rss_data, aggregated_repos,
                   established, rising, new, files, log, poc_mode>>

NextLog == CallLogScale

SpecLog == InitLog /\ [][NextLog]_vars

(***************************************************************************)
(* SpecMissing: records that lack stars or age_days, alone or next to      *)
(* another record of the same project, all collected from GitHub, with     *)
(* empty social maps.                                                      *)
(***************************************************************************)
\* greatest number of records of a run of SpecMissing
MaxMissing == 2

\* a dict without the key f
Without(repo, f) == [k \in DOMAIN repo \ {f} |-> repo[k]]

MissingPool ==
    LET full == { SetField(RepoDict(x.owner, x.name, x.repo_url, 100, 400),
                           "recent_commits_count", 5) : x \in AggIdents }
    IN  full \cup { Without(r, "stars") : r \in full }
             \cup { Without(r, "age_days") : r \in full }

InitMissing ==
    \E recs \in BoundedSeq(MissingPool, MaxMissing) :
        Collected(recs, Len(recs), 0, EmptyDict, EmptyDict)

SpecMissing == InitMissing /\ [][Next]_vars

(***************************************************************************)
(* SpecRankTier: _rank_tier called on its own, on a list of up to          *)
(* MaxTierCall records, with one of the three tier names or with a name    *)
(* that is none of them.                                                   *)
(***************************************************************************)
\* greatest number of records handed to _rank_tier
MaxTierCall == 2

TierNameArguments == {"established", "rising", "new", "stagnant"}

InitRankTier ==
    \E recs \in BoundedSeq(AggPool, MaxTierCall) :
        \E tier_name \in TierNameArguments :
            /\ heap = recs
            /\ github_repos = <<>>
            /\ gitlab_repos = <<>>
            /\ bitbucket_repos = <<>>
            /\ reddit_data = EmptyDict
            /\ rss_data = EmptyDict
            /\ aggregated_repos = <<>>
            /\ established = <<>>
            /\ rising = <<>>
            /\ new = <<>>
            /\ pc = "calling"
            /\ calls = <<[fn |-> "_rank_tier", repos |-> Interval(1, Len(recs)),
                          tier_name |-> tier_name]>>
            /\ rets = <<>>
            /\ files = {}
            /\ log = <<>>
            /\ poc_mode = FALSE

\* the pending call is made; _rank_tier has no raise statement and reads
\* the records with .get only, so it always returns
CallRankTier ==
    /\ pc = "calling"
    /\ calls # <<>>
    /\ Head(calls).fn = "_rank_tier"
    /\ \E r \in {RankTier(heap, Head(calls).repos, Head(calls).tier_name)} :
           /\ heap' = r.heap
           /\ rets' = Append(rets, [repos |-> Head(calls).repos,
                                    tier_name |-> Head(calls).tier_name,
                                    ranked |-> r.ranked])
    /\ calls' = Tail(calls)
    /\ pc' = "returned"
    /\ UNCHANGED <<github_repos, gitlab_repos, bitbucket_repos, reddit_data,
                   rss_data, aggregated_repos, established, rising, new,
                   files, log, poc_mode>>

NextRankTier == CallRankTier

SpecRankTier == InitRankTier /\ [][NextRankTier]_vars

(***************************************************************************)
(* SpecAgain: the inputs of Spec; after aggregate_data has returned, its   *)
(* result is fed back to it as the only platform list, with the same       *)
(* social maps.                                                            *)
(***************************************************************************)
\* aggregate_data(aggregated_repos, [], [], reddit_data, rss_data)
AggregateAgain ==
    /\ pc = "aggregated"
    /\ \E r \in {AggregateData(heap, aggregated_repos, <<>>, <<>>,
                               reddit_data, rss_data)} :
           /\ heap' = r.heap
           /\ rets' = Append(rets, [raised |-> r.raised, ret |-> r.ret])
    /\ pc' = "returned"
    /\ UNCHANGED <<github_repos, gitlab_repos, bitbucket_repos, reddit_data,
                   rss_data, aggregated_repos, established, rising, new, calls,
                   files, log, poc_mode>>

NextAgain == Aggregate \/ AggregateAgain

SpecAgain == Init /\ [][NextAgain]_vars

(***************************************************************************)
(* SpecOrder: the records and social maps of Spec in runs of up to         *)
(* MaxOrder records, on which every arrangement of the input is compared.  *)
(***************************************************************************)
\* greatest number of records of a run of SpecOrder
MaxOrder == 2

InitOrder ==
    \E recs \in BoundedSeq(AggPool, MaxOrder) :
        \E g \in 0..Len(recs) :
            \E l \in 0..(Len(recs) - g) :
                \E reddit \in RedditMaps, rss \in RssMaps :
                    Collected(recs, g, l, reddit, rss)

SpecOrder == InitOrder /\ [][Next]_vars

(***************************************************************************)
(* SpecFactors: up to MaxFactors repositories that are equal in stars,     *)
(* commits and Reddit and web mentions, of an age of each tier (the        *)
(* commits make the middle age rising), with and without star velocity     *)
(* and recent mentions.                                                    *)
(***************************************************************************)
\* greatest number of records of a run of SpecFactors
MaxFactors == 2

FactorProfiles ==
    { Profile(a, 100, <<50>>, v, <<RedditEntry(3, 7, r)>>, <<>>) :
          a \in {30, 200, 400}, v \in {<<>>, <<50>>}, r \in {0, 5} }

InitFactors ==
    \E ps \in BoundedSeq(FactorProfiles, MaxFactors) : CollectedProfiles(ps)

SpecFactors == InitFactors /\ [][Next]_vars

(***************************************************************************)
(* SpecMain: a whole run of main.  The searches of a collector find some   *)
(* number of qualifying repositories, of which the collector keeps at most *)
(* POC_LIMIT in POC mode; the GitLab projects are the GitHub repositories  *)
(* of the same names under another spelling of the owner.  A write to the  *)
(* file system may fail.                                                   *)
(***************************************************************************)
\* greatest number of qualifying repositories the searches of one platform find
MaxFound == 11

POC_LIMIT == 10

\* "if POC_MODE and len(repos_data) >= POC_LIMIT: break" before each append
CollectorTake(found) ==
    IF poc_mode /\ found > POC_LIMIT THEN POC_LIMIT ELSE found

MainAges == <<30, 200, 400>>

\* the name of the i-th repository found
FoundName(i) == [k \in 1..i |-> "r"]

\* repo_data of the i-th repository the GitHub searches find
GithubDict(i) ==
    [platform |-> "github", repo_url |-> [site |-> "github", n |-> i],
     owner |-> <<"a">>, name |-> FoundName(i), stars |-> 100 * i,
     age_days |-> MainAges[(i % 3) + 1], recent_commits_count |-> 4 * i]

\* repo_data of the i-th project the GitLab searches find
GitlabDict(i) ==
    [platform |-> "gitlab", repo_url |-> [site |-> "gitlab", n |-> i],
     owner |-> <<"A">>, name |-> FoundName(i), stars |-> 150,
     age_days |-> MainAges[(i % 3) + 1], recent_commits_count |-> 0]

\* the order of main with the classification entered again after the ranking
SuccessorReenter(p) ==
    CASE p = "start" -> "github_collected"
      [] p = "github_collected" -> "gitlab_collected"
      [] p = "gitlab_collected" -> "bitbucket_collected"
      [] p = "bitbucket_collected" -> "reddit_collected"
      [] p = "reddit_collected" -> "rss_collected"
      [] p = "rss_collected" -> "collected"
      [] p = "collected" -> "aggregated"
      [] p = "aggregated" -> "checked"
      [] p = "checked" -> "classified"
      [] p = "classified" -> "checked"
      [] p = "ranked" -> "snapshot_written"
      [] p = "snapshot_written" -> "tiers_written"
      [] p = "tiers_written" -> "readme_written"
      [] p = "readme_written" -> "exit_0"

\* the statement of main that follows the completed statement p
Successor(p) ==
    CASE p = "start" -> "github_collected"
      [] p = "github_collected" -> "gitlab_collected"
      [] p = "gitlab_collected" -> "bitbucket_collected"
      [] p = "bitbucket_collected" -> "reddit_collected"
      [] p = "reddit_collected" -> "rss_collected"
      [] p = "rss_collected" -> "collected"
      [] p = "collected" -> "aggregated"
      [] p = "aggregated" -> "checked"
      [] p = "checked" -> "classified"
      [] p = "classified" -> "ranked"
      [] p = "ranked" -> "snapshot_written"
      [] p = "snapshot_written" -> "tiers_written"
      [] p = "tiers_written" -> "readme_written"
      [] p = "readme_written" -> "exit_0"

\* main without the test of the GitHub result
AfterGithubNoCheck(repos) == Successor("start")

\* "if not github_repos: sys.exit(1)"; SystemExit is not an Exception and
\* passes the except clause of main
AfterGithub(repos) == IF repos = <<>> THEN "exit_1" ELSE Successor("start")

collected_vars == <<github_repos, gitlab_repos, bitbucket_repos, reddit_data, rss_data>>

tier_vars == <<established, rising, new>>

call_vars == <<calls, rets>>

InitMain ==
    /\ NoPipeline
    /\ pc = "start"
    /\ calls = <<>>
    /\ rets = <<>>
    /\ files = {}
    /\ log = <<>>
    /\ poc_mode \in BOOLEAN

\* github_repos = collect_github_repos() and the test of its result
CollectGithub ==
    /\ pc = "start"
    /\ \E found \in 0..MaxFound :
           LET take == CollectorTake(found) IN
           /\ heap' = heap \o [i \in 1..take |-> GithubDict(i)]
           /\ github_repos' = Interval(Len(heap) + 1, Len(heap) + take)
    /\ pc' = AfterGithub(github_repos')
    /\ log' = IF github_repos' = <<>> THEN Append(log, "CRITICAL") ELSE log
    /\ UNCHANGED <<gitlab_repos, bitbucket_repos, reddit_data, rss_data,
                   aggregated_repos, tier_vars, call_vars, files, poc_mode>>

\* gitlab_repos = collect_gitlab_repos()
CollectGitlab ==
    /\ pc = "github_collected"
    /\ \E found \in 0..MaxFound :
           LET take == CollectorTake(found) IN
           /\ heap' = heap \o [i \in 1..take |-> GitlabDict(i)]
           /\ gitlab_repos' = Interval(Len(heap) + 1, Len(heap) + take)
    /\ pc' = Successor(pc)
    /\ UNCHANGED <<github_repos, bitbucket_repos, reddit_data, rss_data,
                   aggregated_repos, tier_vars, call_vars, files, log, poc_mode>>

\* bitbucket_repos = collect_bitbucket_repos(): the stub returns []
CollectBitbucket ==
    /\ pc = "gitlab_collected"
    /\ bitbucket_repos' = <<>>
    /\ pc' = Successor(pc)
    /\ UNCHANGED <<heap, github_repos, gitlab_repos, reddit_data, rss_data,
                   aggregated_repos, tier_vars, call_vars, files, log, poc_mode>>

\* all_repos_for_social = github_repos + gitlab_repos + bitbucket_repos
AllReposForSocial == github_repos \o gitlab_repos \o bitbucket_repos

\* reddit_data = collect_reddit_data(...): nothing, or mentions of the first
\* repository
CollectReddit ==
    /\ pc = "bitbucket_collected"
    /\ reddit_data' \in
           {EmptyDict} \cup
           { heap[AllReposForSocial[k]]["repo_url"] :> RedditEntry(3, 40, 1) :
                 k \in {1} \cap DOMAIN AllReposForSocial }
    /\ pc' = Successor(pc)
    /\ UNCHANGED <<heap, github_repos, gitlab_repos, bitbucket_repos, rss_data,
                   aggregated_repos, tier_vars, call_vars, files, log, poc_mode>>

\* rss_data = collect_rss_mentions(...): nothing, or a mention of the first
\* repository
CollectRss ==
    /\ pc = "reddit_collected"
    /\ rss_data' \in
           {EmptyDict} \cup
           { heap[AllReposForSocial[k]]["repo_url"] :> [web_mentions |-> 1] :
                 k \in {1} \cap DOMAIN AllReposForSocial }
    /\ pc' = Successor(pc)
    /\ UNCHANGED <<heap, github_repos, gitlab_repos, bitbucket_repos, reddit_data,
                   aggregated_repos, tier_vars, call_vars, files, log, poc_mode>>

\* _save_raw_data: mkdir may raise; a failure to write the files is only
\* logged as a warning
SaveRawData ==
    /\ pc = "rss_collected"
    /\ \E outcome \in {"saved", "not_saved", "raised"} :
           /\ files' = IF outcome = "saved" THEN files \cup {"raw"} ELSE files
           /\ pc' = IF outcome = "raised" THEN "error" ELSE Successor(pc)
    /\ UNCHANGED <<heap, collected_vars, aggregated_repos, tier_vars,
                   call_vars, log, poc_mode>>

\* "if not aggregated_repos": the empty README and the return
CheckAggregated ==
    /\ pc = "aggregated"
    /\ IF aggregated_repos = <<>>
       THEN \E ok \in BOOLEAN :
                /\ files' = files \cup {"README.md"}
                /\ log' = IF ok THEN Append(log, "Generated empty README") ELSE log
                /\ pc' = IF ok THEN "exit_0" ELSE "error"
       ELSE /\ pc' = Successor(pc)
            /\ UNCHANGED <<files, log>>
    /\ UNCHANGED <<heap, collected_vars, aggregated_repos, tier_vars,
                   call_vars, poc_mode>>

\* classify_and_rank, the classification loop
Classify ==
    /\ pc = "checked"
    /\ \E n \in {ClassifiedBeforeRaise(heap, aggregated_repos)} :
       \E classified \in {ClassifyLoop([heap |-> heap, established |-> <<>>,
                                        rising |-> <<>>, new |-> <<>>],
                                       SubSeq(aggregated_repos, 1, n), 1)} :
           /\ heap' = classified.heap
           /\ established' = classified.established
           /\ rising' = classified.rising
           /\ new' = classified.new
           /\ pc' = IF n < Len(aggregated_repos) THEN "error" ELSE Successor(pc)
    /\ UNCHANGED <<collected_vars, aggregated_repos, call_vars, files, log, poc_mode>>

\* classify_and_rank, the three calls of _rank_tier and the return
Rank ==
    /\ pc = "classified"
    /\ \E established_ranked \in {RankTier(heap, established, "established")} :
       \E rising_ranked \in {RankTier(established_ranked.heap, rising, "rising")} :
       \E new_ranked \in {RankTier(rising_ranked.heap, new, "new")} :
           /\ heap' = new_ranked.heap
           /\ established' = established_ranked.ranked
           /\ rising' = rising_ranked.ranked
           /\ new' = new_ranked.ranked
    /\ pc' = Successor(pc)
    /\ UNCHANGED <<collected_vars, aggregated_repos, call_vars, files, log, poc_mode>>

\* generate_snapshot_csv: it raises again what the write raised
GenerateSnapshotCsv ==
    /\ pc = "ranked"
    /\ \E outcome \in {"written", "raised_before_open", "raised_in_write"} :
           /\ files' = IF outcome = "raised_before_open" THEN files
                       ELSE files \cup {"snapshot.csv"}
           /\ pc' = IF outcome = "written" THEN Successor(pc) ELSE "error"
    /\ UNCHANGED <<heap, collected_vars, aggregated_repos, tier_vars,
                   call_vars, log, poc_mode>>

TierFiles == <<"established.csv", "rising.csv", "new.csv">>

\* generate_tier_csvs: the files are written in the order established,
\* rising, new, and the first failure is raised again
GenerateTierCsvs ==
    /\ pc = "snapshot_written"
    /\ \E opened \in 0..Len(TierFiles) : \E ok \in BOOLEAN :
           /\ ok => opened = Len(TierFiles)
           /\ files' = files \cup {TierFiles[k] : k \in 1..opened}
           /\ pc' = IF ok THEN Successor(pc) ELSE "error"
    /\ UNCHANGED <<heap, collected_vars, aggregated_repos, tier_vars,
                   call_vars, log, poc_mode>>

\* generate_readme: it raises again what the write raised
GenerateReadme ==
    /\ pc = "tiers_written"
    /\ \E outcome \in {"written", "raised_before_open", "raised_in_write"} :
           /\ files' = IF outcome = "raised_before_open" THEN files
                       ELSE files \cup {"README.md"}
           /\ pc' = IF outcome = "written" THEN Successor(pc) ELSE "error"
    /\ UNCHANGED <<heap, collected_vars, aggregated_repos, tier_vars,
                   call_vars, log, poc_mode>>

\* the summary and the success banner
Summary ==
    /\ pc = "readme_written"
    /\ log' = Append(log, "Completed Successfully")
    /\ pc' = Successor(pc)
    /\ UNCHANGED <<heap, collected_vars, aggregated_repos, tier_vars,
                   call_vars, files, poc_mode>>

\* an except clause that logs the error and lets the run go on to the summary
HandleExceptionResume ==
    /\ pc = "error"
    /\ log' = Append(log, "FATAL ERROR")
    /\ pc' = "readme_written"
    /\ UNCHANGED <<heap, collected_vars, aggregated_repos, tier_vars,
                   call_vars, files, poc_mode>>

\* "except Exception as e": the error is logged and the run exits with 1
HandleException ==
    /\ pc = "error"
    /\ log' = Append(log, "FATAL ERROR")
    /\ pc' = "exit_1"
    /\ UNCHANGED <<heap, collected_vars, aggregated_repos, tier_vars,
                   call_vars, files, poc_mode>>

NextMain ==
    \/ CollectGithub
    \/ CollectGitlab
    \/ CollectBitbucket
    \/ CollectReddit
    \/ CollectRss
    \/ SaveRawData
    \/ Aggregate
    \/ CheckAggregated
    \/ Classify
    \/ Rank
    \/ GenerateSnapshotCsv
    \/ GenerateTierCsvs
    \/ GenerateReadme
    \/ Summary
    \/ HandleException

SpecMain == InitMain /\ [][NextMain]_vars

(***************************************************************************)
(* Properties of aggregate_data (checked under Spec).                      *)
(***************************************************************************)
\* the normalized key as the specification words it
NormKey(repo) == Lower(repo["owner"]) \o <<"/">> \o Lower(repo["name"])

\* the positions of the concatenated input whose record has the key of id
GroupOf(id) == {k \in DOMAIN AllRepos : NormKey(heap[AllRepos[k]]) = NormKey(heap[id])}

\* the position of id in the sequence s (0 when it is not there)
PosIn(s, id) ==
    IF \E k \in DOMAIN s : s[k] = id
    THEN CHOOSE k \in DOMAIN s : s[k] = id /\ \A j \in DOMAIN s : s[j] = id => k <= j
    ELSE 0

\* C1: the list aggregate_data returns holds exactly one record for each
\* normalized key lower(owner)/lower(name) of the concatenated input: no key
\* twice, no input key missing, and nothing that was not in the input.
C1_OneRecordPerKey ==
    pc # "collected" =>
        /\ \A i, j \in DOMAIN aggregated_repos :
               i # j => NormKey(heap[aggregated_repos[i]]) # NormKey(heap[aggregated_repos[j]])
        /\ \A k \in DOMAIN AllRepos : \E i \in DOMAIN aggregated_repos :
               NormKey(heap[aggregated_repos[i]]) = NormKey(heap[AllRepos[k]])
        /\ Range(aggregated_repos) \subseteq Range(AllRepos)

\* three records were passed in, two of them spellings of one project, and
\* two records came back
C1_Witness ==
    /\ pc = "aggregated"
    /\ Len(AllRepos) = 3
    /\ Len(aggregated_repos) = 2
    /\ \E a, b \in Range(AllRepos) :
           a # b /\ heap[a]["owner"] # heap[b]["owner"] /\ NormKey(heap[a]) = NormKey(heap[b])

\* C2: of the input records that share a normalized key, the one kept has
\* the greatest stars, and among those with the greatest stars it is the
\* first of the concatenation github, gitlab, bitbucket.
C2_KeepsFirstGreatestStars ==
    pc # "collected" =>
        \A i \in DOMAIN aggregated_repos :
            LET id == aggregated_repos[i]
                kept == PosIn(AllRepos, id)
            IN  /\ kept \in GroupOf(id)
                /\ \A k \in GroupOf(id) :
                       /\ heap[AllRepos[k]]["stars"] <= heap[id]["stars"]
                       /\ heap[AllRepos[k]]["stars"] = heap[id]["stars"] => kept <= k

\* a group of three over two platform lists, stars 200, 500, 500: the
\* second record is the one kept
C2_Witness ==
    /\ pc = "aggregated"
    /\ Len(github_repos) = 2
    /\ Len(gitlab_repos) = 1
    /\ GroupOf(1) = {1, 2, 3}
    /\ heap[1]["stars"] = 200
    /\ heap[2]["stars"] = 500
    /\ heap[3]["stars"] = 500
    /\ aggregated_repos = <<2>>

\* the value a social map holds for a URL and a field, 0 when it has none
SocialValue(map, repo_url, f) ==
    IF repo_url \in DOMAIN map /\ f \in DOMAIN map[repo_url]
    THEN map[repo_url][f]
    ELSE 0

\* C3: every returned record has the four social fields; each is the value
\* of its repo_url's entry in the Reddit map (reddit_mentions,
\* reddit_upvotes, recent_mentions_30d) or in the RSS map (web_mentions),
\* and 0 when the entry or the field is missing, each map on its own.
C3_SocialFieldsMerged ==
    pc # "collected" =>
        \A id \in Range(aggregated_repos) :
            LET repo == heap[id] IN
            /\ {"reddit_mentions", "reddit_upvotes", "recent_mentions_30d",
                "web_mentions"} \subseteq DOMAIN repo
            /\ \A f \in {"reddit_mentions", "reddit_upvotes", "recent_mentions_30d"} :
                   repo[f] = SocialValue(reddit_data, repo["repo_url"], f)
            /\ repo["web_mentions"] = SocialValue(rss_data, repo["repo_url"], "web_mentions")

\* one record found in the Reddit map only, by an entry that lacks two
\* fields, another found in the RSS map only, by an entry without its field
C3_Witness ==
    /\ pc = "aggregated"
    /\ \E id \in Range(aggregated_repos) :
           LET u == heap[id]["repo_url"] IN
           /\ u \in DOMAIN reddit_data
           /\ u \notin DOMAIN rss_data
           /\ "reddit_upvotes" \notin DOMAIN reddit_data[u]
           /\ heap[id]["reddit_mentions"] = 3
           /\ heap[id]["reddit_upvotes"] = 0
           /\ heap[id]["web_mentions"] = 0
    /\ \E id \in Range(aggregated_repos) :
           LET u == heap[id]["repo_url"] IN
           /\ u \in DOMAIN rss_data
           /\ "web_mentions" \notin DOMAIN rss_data[u]
           /\ heap[id]["reddit_mentions"] = 2
           /\ heap[id]["web_mentions"] = 0

(***************************************************************************)
(* Properties of classify_and_rank.  TierLists are the three lists it      *)
(* returns, by tier name; aggregated_repos is the list it was passed.      *)
(***************************************************************************)
TierNames == {"established", "rising", "new"}

TierLists == [established |-> established, rising |-> rising, new |-> new]

\* the number of positions over the three returned lists that hold id
Occurrences(id) ==
    Cardinality({k \in DOMAIN established : established[k] = id})
        + Cardinality({k \in DOMAIN rising : rising[k] = id})
        + Cardinality({k \in DOMAIN new : new[k] = id})

\* C4: the three lists classify_and_rank returns partition its input: the
\* lengths sum to N, every input record is in exactly one list at exactly
\* one position, the lists hold nothing else, and the tier field of a
\* record names the list that holds it.
C4_TiersPartitionInput ==
    pc = "ranked" =>
        /\ Len(established) + Len(rising) + Len(new) = Len(aggregated_repos)
        /\ \A id \in Range(aggregated_repos) : Occurrences(id) = 1
        /\ \A t \in TierNames : Range(TierLists[t]) \subseteq Range(aggregated_repos)
        /\ \A t \in TierNames : \A id \in Range(TierLists[t]) : heap[id]["tier"] = t

\* three records, one in each tier, the established one a record of the
\* middle age band without growth signals
C4_Witness ==
    /\ pc = "ranked"
    /\ Len(aggregated_repos) = 3
    /\ Len(established) = 1
    /\ Len(rising) = 1
    /\ Len(new) = 1
    /\ heap[established[1]]["age_days"] = 200

\* the growth signals of a record, read with missing fields as 0
AllFourSignals(repo) ==
    /\ Get(repo, "star_velocity_30d", 0) > 10
    /\ Get(repo, "recent_mentions_30d", 0) > 0
    /\ Get(repo, "web_mentions", 0) > 0
    /\ Get(repo, "recent_commits_count", 0) > 10

\* C5: outside the middle age band age alone decides: age_days < 90 is tier
\* new and age_days >= 365 is tier established, whatever the growth signals.
C5_AgeAloneOutsideMiddleBand ==
    pc = "ranked" =>
        \A id \in Range(aggregated_repos) :
            /\ heap[id]["age_days"] < 90 =>
                   heap[id]["tier"] = "new" /\ id \in Range(new)
            /\ heap[id]["age_days"] >= 365 =>
                   heap[id]["tier"] = "established" /\ id \in Range(established)

\* a record of 89 days and one of exactly 365 days, both with all four
\* growth signals, are new and established
C5_Witness ==
    /\ pc = "ranked"
    /\ \E id \in Range(new) :
           heap[id]["age_days"] = 89 /\ AllFourSignals(heap[id])
    /\ \E id \in Range(established) :
           heap[id]["age_days"] = 365 /\ AllFourSignals(heap[id])

\* C6: a record with 90 <= age_days < 365 is tier rising if and only if
\* the growth-signal predicate holds for it, established otherwise, and
\* never new.
C6_MiddleBandByGrowth ==
    pc = "ranked" =>
        \A id \in Range(aggregated_repos) :
            (heap[id]["age_days"] >= 90 /\ heap[id]["age_days"] < 365) =>
                /\ heap[id]["tier"] # "new"
                /\ heap[id]["tier"] = "rising" <=> HasGrowthSignals(heap[id])
                /\ heap[id]["tier"] = "established" <=> ~HasGrowthSignals(heap[id])
                /\ id \in Range(rising) <=> HasGrowthSignals(heap[id])
                /\ id \in Range(established) <=> ~HasGrowthSignals(heap[id])

\* a record of exactly 90 days without growth is established and a record
\* of exactly 364 days with growth is rising
C6_Witness ==
    /\ pc = "ranked"
    /\ \E id \in Range(established) :
           heap[id]["age_days"] = 90 /\ ~HasGrowthSignals(heap[id])
    /\ \E id \in Range(rising) :
           heap[id]["age_days"] = 364 /\ HasGrowthSignals(heap[id])

\* the growth-signal predicate as the specification words it
AnyGrowthSignal(repo) ==
    \/ (IF "star_velocity_30d" \in DOMAIN repo THEN repo["star_velocity_30d"] ELSE 0) > 10
    \/ (IF "recent_mentions_30d" \in DOMAIN repo THEN repo["recent_mentions_30d"] ELSE 0) > 0
    \/ (IF "web_mentions" \in DOMAIN repo THEN repo["web_mentions"] ELSE 0) > 0
    \/ (IF "recent_commits_count" \in DOMAIN repo THEN repo["recent_commits_count"] ELSE 0) > 10

C8_RanksAreOneToN ==
    pc = "ranked" =>
        \A t \in TierNames :
            LET list == TierLists[t] IN
            /\ \A k \in DOMAIN list : heap[list[k]]["rank_in_tier"] = (k - 1) + 1
            /\ \A n \in 1..Len(list) :
                   Cardinality({k \in DOMAIN list : heap[list[k]]["rank_in_tier"] = n}) = 1
            /\ \A k \in DOMAIN list : heap[list[k]]["rank_in_tier"] \in 1..Len(list)

\* a tier of three records, the last of them with rank 3
C8_Witness ==
    /\ pc = "ranked"
    /\ \E t \in TierNames :
           /\ Len(TierLists[t]) = 3
           /\ heap[TierLists[t][3]]["rank_in_tier"] = 3

\* C9: within a tier, the record with the strictly higher composite_score
\* has the strictly smaller rank_in_tier, and composite_score never
\* increases along the returned list.
C9_RankFollowsDescendingScore ==
    pc = "ranked" =>
        \A t \in TierNames :
            LET list == TierLists[t] IN
            /\ \A a, b \in Range(list) :
                   heap[a]["composite_score"] > heap[b]["composite_score"]
                       => heap[a]["rank_in_tier"] < heap[b]["rank_in_tier"]
            /\ \A k \in 1..(Len(list) - 1) :
                   heap[list[k]]["composite_score"] >= heap[list[k + 1]]["composite_score"]

\* a tier whose lower-scored record came first in the input and is ranked
\* after the higher-scored one
C9_Witness ==
    /\ pc = "ranked"
    /\ \E t \in TierNames :
           LET list == TierLists[t] IN
           /\ Len(list) >= 2
           /\ heap[list[1]]["composite_score"] > heap[list[2]]["composite_score"]
           /\ PosIn(aggregated_repos, list[1]) > PosIn(aggregated_repos, list[2])

\* C10: records of one tier with equal composite_score are listed, and so
\* ranked, in the order they had in the list passed to classify_and_rank.
C10_StableRanking ==
    pc = "ranked" =>
        \A t \in TierNames :
            LET list == TierLists[t] IN
            \A i, j \in DOMAIN list :
                (i < j /\ heap[list[i]]["composite_score"] = heap[list[j]]["composite_score"])
                    => /\ PosIn(aggregated_repos, list[i]) < PosIn(aggregated_repos, list[j])
                       /\ heap[list[i]]["rank_in_tier"] < heap[list[j]]["rank_in_tier"]

\* two records of equal score behind a higher-scored record that came last
\* in the input
C10_Witness ==
    /\ pc = "ranked"
    /\ \E t \in TierNames :
           LET list == TierLists[t] IN
           /\ Len(list) = 3
           /\ heap[list[1]]["composite_score"] > heap[list[2]]["composite_score"]
           /\ heap[list[2]]["composite_score"] = heap[list[3]]["composite_score"]
           /\ PosIn(aggregated_repos, list[1]) = 3
           /\ PosIn(aggregated_repos, list[2]) = 1
           /\ PosIn(aggregated_repos, list[3]) = 2

(***************************************************************************)
(* Properties of the scoring (checked under SpecRank).  A score is an      *)
(* integer number of 10^-8, a normalised value of 10^-6 and the weights    *)
(* below are tenths, so a top-level factor of one raw value carries a      *)
(* further factor 10.                                                      *)
(***************************************************************************)
\* a raw value of a record, 0 when the record does not have the field
Raw(repo, f) == IF f \in DOMAIN repo THEN repo[f] ELSE 0

StarsFactor(repo) == 10 * LogScale(Raw(repo, "stars"), 20, 10000)

RecentActivityFactor(repo) == 10 * LogScale(Raw(repo, "recent_commits_count"), 1, 100)

SocialSignalsFactor(repo) ==
    4 * LogScale(Raw(repo, "reddit_mentions"), 0, 50)
        + 4 * LogScale(Raw(repo, "reddit_upvotes"), 0, 500)
        + 2 * LogScale(Raw(repo, "web_mentions"), 0, 10)

GrowthRateFactor(repo) ==
    6 * LogScale(Raw(repo, "star_velocity_30d"), 0, 100)
        + 4 * LogScale(Raw(repo, "recent_mentions_30d"), 0, 20)

\* the composite score of a record of tier t, by the weight tables of C11
TableScore(repo, t) ==
    CASE t = "established" ->
             6 * StarsFactor(repo) + 2 * RecentActivityFactor(repo)
                 + 2 * SocialSignalsFactor(repo)
      [] t = "rising" ->
             4 * GrowthRateFactor(repo) + 3 * StarsFactor(repo)
                 + 2 * RecentActivityFactor(repo) + 1 * SocialSignalsFactor(repo)
      [] t = "new" ->
             5 * RecentActivityFactor(repo) + 3 * StarsFactor(repo)
                 + 2 * SocialSignalsFactor(repo)

\* C11: the composite_score of a ranked record is the sum, over the factors
\* of its tier's weight table, of weight times normalised factor, with the
\* tables established {stars 0.6, recent_activity 0.2, social_signals 0.2},
\* rising {growth_rate 0.4, stars 0.3, recent_activity 0.2, social_signals
\* 0.1}, new {recent_activity 0.5, stars 0.3, social_signals 0.2} and the
\* factors and calibration pairs of _calculate_score.
C11_ScoreIsWeightedSum ==
    pc = "ranked" =>
        \A t \in TierNames : \A id \in Range(TierLists[t]) :
            heap[id]["composite_score"] = TableScore(heap[id], t)

\* a rising record with star velocity and an established record with Reddit
\* mentions and upvotes, both scored
C11_Witness ==
    /\ pc = "ranked"
    /\ \E id \in Range(rising) :
           /\ Raw(heap[id], "star_velocity_30d") = 50
           /\ heap[id]["composite_score"] > 4 * GrowthRateFactor(heap[id])
           /\ GrowthRateFactor(heap[id]) > 0
    /\ \E id \in Range(established) :
           /\ heap[id]["reddit_upvotes"] = 200
           /\ SocialSignalsFactor(heap[id]) > 0
           /\ heap[id]["composite_score"] > 0

(***************************************************************************)
(* Frame of aggregate_data (checked under Spec).                           *)
(***************************************************************************)
SocialFields == {"reddit_mentions", "reddit_upvotes", "recent_mentions_30d", "web_mentions"}

\* a step in which aggregate_data is called and returns
AggregateReturns == pc = "collected" /\ pc' = "aggregated"

\* the arguments of aggregate_data are the same objects after the step
ArgumentsKept ==
    /\ github_repos' = github_repos
    /\ gitlab_repos' = gitlab_repos
    /\ bitbucket_repos' = bitbucket_repos
    /\ reddit_data' = reddit_data
    /\ rss_data' = rss_data

\* C15 as stated: aggregate_data has no side effect beyond the list it
\* returns; after the call the three platform lists, every field of every
\* record that was in them, and both social maps are unchanged.
C15_NoSideEffect ==
    [][AggregateReturns => (ArgumentsKept /\ heap' = heap)]_vars

\* C15, amended: after the call the three platform lists and both social
\* maps are unchanged and so is every record that did not survive
\* deduplication; a surviving record is the input dict itself, with
\* reddit_mentions, reddit_upvotes, recent_mentions_30d and web_mentions set
\* on it in place and every other field unchanged.
C15_OnlySurvivorsSocialFieldsWritten ==
    [][AggregateReturns =>
          /\ ArgumentsKept
          /\ DOMAIN heap' = DOMAIN heap
          /\ Range(aggregated_repos') \subseteq Range(AllRepos)
          /\ \A id \in DOMAIN heap :
                 IF id \in Range(aggregated_repos')
                 THEN /\ DOMAIN heap'[id] = DOMAIN heap[id] \cup SocialFields
                      /\ \A f \in DOMAIN heap[id] \ SocialFields :
                             heap'[id][f] = heap[id][f]
                 ELSE heap'[id] = heap[id]]_vars

\* after the call: a discarded input record without social fields next to a
\* survivor, still in its input list, that now carries Reddit mentions
C15_Witness ==
    /\ pc = "aggregated"
    /\ \E id \in Range(AllRepos) \ Range(aggregated_repos) :
           DOMAIN heap[id] \cap SocialFields = {}
    /\ \E id \in Range(aggregated_repos) \cap Range(AllRepos) :
           /\ SocialFields \subseteq DOMAIN heap[id]
           /\ heap[id]["reddit_mentions"] > 0

(***************************************************************************)
(* Empty inputs (checked under Spec, whose platform lists and social maps  *)
(* may each be empty and whose records are all old enough to be            *)
(* established, so that the rising and new tiers are empty).               *)
(***************************************************************************)
\* every field of fs is present on the record with value 0
AllZero(repo, fs) == \A f \in fs : f \in DOMAIN repo /\ repo[f] = 0

\* C16: empty input is never an error.  aggregate_data returns normally
\* whichever platform lists and social maps are empty, with the empty list
\* when all platform lists are empty and all-zero social fields when the
\* maps are empty; classify_and_rank returns three empty lists on the empty
\* list; a tier without members is the empty list while every record of
\* the other tiers is ranked.
C16_EmptyInputIsNoError ==
    /\ pc # "error"
    /\ pc \in {"aggregated", "ranked"} =>
           /\ AllRepos = <<>> => aggregated_repos = <<>>
           /\ reddit_data = EmptyDict =>
                  \A id \in Range(aggregated_repos) :
                      AllZero(heap[id], {"reddit_mentions", "reddit_upvotes",
                                         "recent_mentions_30d"})
           /\ rss_data = EmptyDict =>
                  \A id \in Range(aggregated_repos) :
                      AllZero(heap[id], {"web_mentions"})
    /\ pc = "ranked" =>
           /\ aggregated_repos = <<>> =>
                  (established = <<>> /\ rising = <<>> /\ new = <<>>)
           /\ \A t \in TierNames :
                  (\A id \in Range(aggregated_repos) : heap[id]["tier"] # t)
                      => TierLists[t] = <<>>
           /\ \A id \in Range(aggregated_repos) :
                  /\ id \in Range(TierLists[heap[id]["tier"]])
                  /\ heap[id]["rank_in_tier"] \in 1..Len(TierLists[heap[id]["tier"]])

\* a run with an empty GitHub list, a non-empty GitLab list and two empty
\* social maps: the survivors have zero social fields, the rising and new
\* tiers are empty and the established tier is ranked
C16_Witness ==
    /\ pc = "ranked"
    /\ github_repos = <<>>
    /\ gitlab_repos # <<>>
    /\ reddit_data = EmptyDict
    /\ rss_data = EmptyDict
    /\ rising = <<>>
    /\ new = <<>>
    /\ established # <<>>
    /\ AllZero(heap[established[1]], SocialFields)
    /\ heap[established[1]]["rank_in_tier"] = 1

(***************************************************************************)
(* Missing fields (checked under SpecMissing).                             *)
(***************************************************************************)
\* C17: a record that lacks stars or age_days never makes aggregate_data or
\* classify_and_rank fail; the missing field is treated as 0 (a record
\* without age_days is of age 0, hence new), the record is still
\* deduplicated, classified and scored, and so is every other record.
C17_MissingFieldTreatedAsZero ==
    /\ pc # "error"
    /\ pc = "ranked" =>
           \A id \in Range(aggregated_repos) :
               /\ {"tier", "composite_score", "rank_in_tier"} \subseteq DOMAIN heap[id]
               /\ "age_days" \notin DOMAIN heap[id] => heap[id]["tier"] = "new"

(***************************************************************************)
(* Unknown tier names (checked under SpecRankTier).                        *)
(***************************************************************************)
\* C18: a call of _rank_tier with a tier name that is not established,
\* rising or new ends in an error, and no record gets a composite_score or
\* a rank_in_tier from it.  (Stated for calls with at least one record; on
\* the empty list _rank_tier returns before it looks at the name.)
C18_UnknownTierFailsLoudly ==
    \A i \in DOMAIN rets :
        (rets[i].tier_name \notin TierNames /\ rets[i].repos # <<>>) =>
            /\ pc = "error"
            /\ \A id \in Range(rets[i].repos) :
                   {"composite_score", "rank_in_tier"} \cap DOMAIN heap[id] = {}

(***************************************************************************)
(* Idempotence (checked under SpecAgain).                                  *)
(***************************************************************************)
\* C19: aggregate_data applied to the list it returned, as the only
\* platform list and with the same social maps, returns the same records
\* in the same order, and every field of every record has the value it had.
C19_AggregateIdempotent ==
    [][(pc = "aggregated" /\ pc' = "returned") =>
          /\ ~rets'[1].raised
          /\ rets'[1].ret = aggregated_repos
          /\ heap' = heap]_vars

\* a second aggregation of a list from which the first one had removed a
\* duplicate and whose first record carries Reddit mentions
C19_Witness ==
    /\ pc = "returned"
    /\ Len(aggregated_repos) < Len(AllRepos)
    /\ Len(aggregated_repos) >= 2
    /\ rets[1].ret = aggregated_repos
    /\ heap[rets[1].ret[1]]["reddit_mentions"] > 0

(***************************************************************************)
(* Input order (checked under SpecOrder).                                  *)
(***************************************************************************)
\* the permutations of a list of distinct elements
Perms(list) == { p \in [DOMAIN list -> Range(list)] : Range(p) = Range(list) }

\* the concatenations aggregate_data can be given when the three platform
\* lists are permuted and the records inside each of them are permuted
Arrangements ==
    LET lists == <<github_repos, gitlab_repos, bitbucket_repos>> IN
    { t[1] \o t[2] \o t[3] :
          t \in UNION { Perms(lists[o[1]]) \X Perms(lists[o[2]]) \X Perms(lists[o[3]]) :
                            o \in Perms(<<1, 2, 3>>) } }

\* what the claim compares of a survivor
SurvivorView(repo) ==
    [key |-> DedupKey(repo), repo_url |-> repo["repo_url"], stars |-> repo["stars"],
     social |-> [f \in SocialFields |-> repo[f]]]

SurvivorViews(h, ret) == { SurvivorView(h[id]) : id \in Range(ret) }

\* the results of aggregate_data on the arrangements of the current input
ArrangedViews ==
    { SurvivorViews(r.heap, r.ret) :
          r \in { AggregateData(heap, all, <<>>, <<>>, reddit_data, rss_data) :
                      all \in Arrangements } }

\* the repo_urls of the input records of a key that hold its greatest stars
GreatestUrls(key) ==
    LET group == { id \in Range(AllRepos) : DedupKey(heap[id]) = key }
    IN  { heap[id]["repo_url"] :
              id \in { g \in group : \A o \in group : heap[g]["stars"] >= heap[o]["stars"] } }

\* the view with repo_url and social fields blanked for the keys whose
\* greatest stars are held by records of different repo_urls
OrderFreeView(v) ==
    IF Cardinality(GreatestUrls(v.key)) = 1 THEN v
    ELSE [key |-> v.key, repo_url |-> "", stars |-> v.stars,
          social |-> [f \in SocialFields |-> 0]]

\* C20 as stated: for every permutation of the platform lists and of the
\* records inside them, aggregate_data returns the same set of surviving
\* records: same repo_url, stars and social fields for every key.
C20_OrderIndependent ==
    [][AggregateReturns =>
          ArrangedViews = {SurvivorViews(heap', aggregated_repos')}]_vars

\* C20, amended: for every such permutation aggregate_data returns one
\* survivor for each of the same keys, with the same stars; its repo_url
\* and social fields are also the same whenever the input records of the
\* key that hold its greatest stars all have one repo_url.
C20_OrderIndependentUpToTies ==
    [][AggregateReturns =>
          { { OrderFreeView(v) : v \in views } : views \in ArrangedViews }
              = { { OrderFreeView(v) : v \in SurvivorViews(heap', aggregated_repos') } }]_vars

\* two spellings of one project with equal stars and different URLs, one
\* collected from GitHub and one from GitLab: the GitHub record survived
C20_Witness ==
    /\ pc = "aggregated"
    /\ Len(github_repos) = 1
    /\ Len(gitlab_repos) = 1
    /\ DedupKey(heap[github_repos[1]]) = DedupKey(heap[gitlab_repos[1]])
    /\ heap[github_repos[1]]["stars"] = heap[gitlab_repos[1]]["stars"]
    /\ heap[github_repos[1]]["repo_url"] # heap[gitlab_repos[1]]["repo_url"]
    /\ aggregated_repos = github_repos

MapValue(m, u, f) == IF u \in DOMAIN m THEN Get(m[u], f, 0) ELSE 0

\* C22: a discarded duplicate contributes nothing to the survivor.  Every
\* non-social field of a surviving record is that field of the one input
\* record that was kept, and its social fields are those of the map entries
\* under the survivor's own repo_url (0 without an entry), whatever the maps
\* hold under the repo_url of a discarded duplicate.
C22_DiscardedContributeNothing ==
    [][AggregateReturns =>
          \A id \in Range(aggregated_repos') :
              /\ id \in Range(AllRepos)
              /\ \A f \in DOMAIN heap[id] \ SocialFields : heap'[id][f] = heap[id][f]
              /\ DOMAIN heap'[id] \ SocialFields = DOMAIN heap[id] \ SocialFields
              /\ \A f \in SocialFields \ {"web_mentions"} :
                     heap'[id][f] = MapValue(reddit_data, heap[id]["repo_url"], f)
              /\ heap'[id]["web_mentions"]
                     = MapValue(rss_data, heap[id]["repo_url"], "web_mentions")]_vars

\* a survivor whose own URL has no Reddit entry and has zero mentions, while
\* the duplicate it displaced has a URL with Reddit mentions
C22_Witness ==
    /\ pc = "aggregated"
    /\ \E kept \in Range(aggregated_repos) :
           \E dropped \in Range(AllRepos) \ Range(aggregated_repos) :
               /\ DedupKey(heap[kept]) = DedupKey(heap[dropped])
               /\ heap[kept]["repo_url"] \notin DOMAIN reddit_data
               /\ heap[dropped]["repo_url"] \in DOMAIN reddit_data
               /\ MapValue(reddit_data, heap[dropped]["repo_url"], "reddit_mentions") > 0
               /\ heap[kept]["reddit_mentions"] = 0

(***************************************************************************)
(* Dominance (checked under SpecRank).                                     *)
(***************************************************************************)
\* the raw values feeding the factors of tier t, with their calibration pairs
FactorRanges(t) ==
    { [field |-> "stars", min_val |-> 20, max_val |-> 10000],
      [field |-> "recent_commits_count", min_val |-> 1, max_val |-> 100],
      [field |-> "reddit_mentions", min_val |-> 0, max_val |-> 50],
      [field |-> "reddit_upvotes", min_val |-> 0, max_val |-> 500],
      [field |-> "web_mentions", min_val |-> 0, max_val |-> 10] }
    \cup (IF t = "rising"
          THEN { [field |-> "star_velocity_30d", min_val |-> 0, max_val |-> 100],
                 [field |-> "recent_mentions_30d", min_val |-> 0, max_val |-> 20] }
          ELSE {})

\* a is at least as large as b in every raw value of tier t and strictly
\* larger, inside the calibration range, in one of them
Dominates(a, b, t) ==
    /\ \A f \in FactorRanges(t) : Raw(a, f.field) >= Raw(b, f.field)
    /\ \E f \in FactorRanges(t) :
           /\ f.min_val <= Raw(b, f.field)
           /\ Raw(b, f.field) < Raw(a, f.field)
           /\ Raw(a, f.field) <= f.max_val

\* record A of the scenario
IsRecordA(repo) ==
    /\ repo["age_days"] = 500
    /\ repo["stars"] = 5000
    /\ repo["recent_commits_count"] = 50
    /\ Raw(repo, "reddit_mentions") = 10
    /\ Raw(repo, "reddit_upvotes") = 200
    /\ Raw(repo, "web_mentions") = 0

\* record B of the scenario
IsRecordB(repo) ==
    /\ repo["age_days"] = 400
    /\ repo["stars"] = 100
    /\ repo["recent_commits_count"] = 5
    /\ Raw(repo, "reddit_mentions") = 0
    /\ Raw(repo, "reddit_upvotes") = 0
    /\ Raw(repo, "web_mentions") = 0

\* C14: of two records of the same tier, one that is at least as large in
\* every raw value feeding the tier's factors and strictly larger, inside
\* the calibration range, in one of them has the strictly higher
\* composite_score and the smaller rank; and when the input is exactly the
\* records A and B of the scenario, both are established, A with rank 1 and
\* B with rank 2.
C14_DominanceRanksHigher ==
    pc = "ranked" =>
        /\ \A t \in TierNames : \A a, b \in Range(TierLists[t]) :
               Dominates(heap[a], heap[b], t) =>
                   /\ heap[a]["composite_score"] > heap[b]["composite_score"]
                   /\ heap[a]["rank_in_tier"] < heap[b]["rank_in_tier"]
        /\ \A a, b \in Range(aggregated_repos) :
               (/\ Len(aggregated_repos) = 2
                /\ IsRecordA(heap[a])
                /\ IsRecordB(heap[b]))
                   => /\ established = <<a, b>>
                      /\ heap[a]["rank_in_tier"] = 1
                      /\ heap[b]["rank_in_tier"] = 2

\* the scenario with B first in the input: A is still ranked first
C14_Witness ==
    /\ pc = "ranked"
    /\ Len(aggregated_repos) = 2
    /\ IsRecordB(heap[aggregated_repos[1]])
    /\ IsRecordA(heap[aggregated_repos[2]])
    /\ Dominates(heap[aggregated_repos[2]], heap[aggregated_repos[1]], "established")
    /\ established = <<aggregated_repos[2], aggregated_repos[1]>>
    /\ heap[aggregated_repos[2]]["rank_in_tier"] = 1

(***************************************************************************)
(* Factors of a tier (checked under SpecFactors).                          *)
(***************************************************************************)
\* the two records have the same raw value in every field of fs
EqualOn(a, b, fs) == \A f \in fs : Raw(a, f) = Raw(b, f)

CommonFields ==
    {"stars", "recent_commits_count", "reddit_mentions", "reddit_upvotes", "web_mentions"}

GrowthFields == {"star_velocity_30d", "recent_mentions_30d"}

\* C23: in the tiers new and established two records equal in stars,
\* recent_commits_count, reddit_mentions, reddit_upvotes and web_mentions
\* have equal composite_scores whatever their star_velocity_30d and
\* recent_mentions_30d; in the tier rising two such records that differ in
\* exactly one of these two fields have different scores.
C23_GrowthFieldsCountOnlyInRising ==
    pc = "ranked" =>
        /\ \A t \in {"new", "established"} : \A a, b \in Range(TierLists[t]) :
               EqualOn(heap[a], heap[b], CommonFields)
                   => heap[a]["composite_score"] = heap[b]["composite_score"]
        /\ \A a, b \in Range(rising) :
               (/\ EqualOn(heap[a], heap[b], CommonFields)
                /\ \E f \in GrowthFields :
                       /\ Raw(heap[a], f) # Raw(heap[b], f)
                       /\ EqualOn(heap[a], heap[b], GrowthFields \ {f}))
                   => heap[a]["composite_score"] # heap[b]["composite_score"]

\* two new repositories, one without velocity and recent mentions, one with
\* both, with the same positive score
C23_Witness ==
    /\ pc = "ranked"
    /\ Len(new) = 2
    /\ EqualOn(heap[new[1]], heap[new[2]], CommonFields)
    /\ Raw(heap[new[1]], "star_velocity_30d") = 0
    /\ Raw(heap[new[2]], "star_velocity_30d") = 50
    /\ Raw(heap[new[1]], "recent_mentions_30d") = 0
    /\ Raw(heap[new[2]], "recent_mentions_30d") = 5
    /\ heap[new[1]]["composite_score"] = heap[new[2]]["composite_score"]
    /\ heap[new[1]]["composite_score"] > 0

(***************************************************************************)
(* Enrichment in place (checked under SpecRank).                           *)
(***************************************************************************)
\* C24: after classify_and_rank every record of the flat list passed in
\* carries tier, composite_score and rank_in_tier, and the tier list of its
\* tier holds the very same dict, at the position its rank_in_tier names, so
\* that the values seen through either list are the same.
C24_FlatListEnrichedInPlace ==
    pc = "ranked" =>
        \A id \in Range(aggregated_repos) :
            /\ {"tier", "composite_score", "rank_in_tier"} \subseteq DOMAIN heap[id]
            /\ heap[id]["tier"] \in TierNames
            /\ heap[id]["rank_in_tier"] \in DOMAIN TierLists[heap[id]["tier"]]
            /\ TierLists[heap[id]["tier"]][heap[id]["rank_in_tier"]] = id

\* a flat list of three records spread over at least two tiers, the first
\* record of the flat list not being first of its tier
C24_Witness ==
    /\ pc = "ranked"
    /\ Len(aggregated_repos) = 3
    /\ established # <<>>
    /\ new # <<>>
    /\ heap[aggregated_repos[1]]["rank_in_tier"] = 2
    /\ heap[aggregated_repos[1]]["composite_score"] > 0
    /\ heap[aggregated_repos[1]]["tier"] = "established"

(***************************************************************************)
(* Properties of _log_scale (checked under SpecLog).                       *)
(***************************************************************************)
\* C12: _log_scale(value, min, max) is 0.0 for value <= min, 1.0 for
\* value >= max, strictly between 0 and 1 for min < value < max, and always
\* within [0, 1].
C12_LogScaleRange ==
    \A i \in DOMAIN rets :
        LET r == rets[i] IN
        /\ r.value <= r.min_val => r.result = 0
        /\ r.value >= r.max_val => r.result = LogOne
        /\ (r.min_val < r.value /\ r.value < r.max_val) =>
               (0 < r.result /\ r.result < LogOne)
        /\ 0 <= r.result
        /\ r.result <= LogOne

\* logScale(20, 20, 10000) = 0.0 and the next value is above it
C12_Witness ==
    /\ pc = "returned"
    /\ rets[1].value = 20
    /\ rets[1].min_val = 20
    /\ rets[1].max_val = 10000
    /\ rets[1].result = 0
    /\ rets[2].value = 21
    /\ rets[2].result > 0
    /\ rets[2].result < LogOne

\* C13: for one calibration pair and values v1 <= v2, _log_scale(v1) <=
\* _log_scale(v2), strictly so whenever min <= v1 < v2 <= max.  (Checked on
\* every pair of integers at most MaxLogGap apart, from which the other
\* pairs follow.)
C13_LogScaleMonotonic ==
    pc = "returned" =>
        LET a == rets[1]
            b == rets[2]
        IN  /\ a.value <= b.value => a.result <= b.result
            /\ (a.min_val <= a.value /\ a.value < b.value /\ b.value <= b.max_val)
                   => a.result < b.result

\* the last step below the maximum of the stars calibration is still a
\* strict increase
C13_Witness ==
    /\ pc = "returned"
    /\ rets[1].value = 9999
    /\ rets[2].value = 10000
    /\ rets[1].max_val = 10000
    /\ rets[1].result < rets[2].result
    /\ rets[2].result = LogOne

(***************************************************************************)
(* The order of the stages of a run (checked under SpecMain).              *)
(***************************************************************************)
\* the stages in the order the data flows through them: 1 collection,
\* 2 aggregation, 3 classification, 4 ranking, 5 output generation, 6 end
StageOf(p) ==
    CASE p \in {"start", "github_collected", "gitlab_collected",
                "bitbucket_collected", "reddit_collected", "rss_collected"} -> 1
      [] p \in {"collected"} -> 2
      [] p \in {"aggregated", "checked"} -> 3
      [] p \in {"classified"} -> 4
      [] p \in {"ranked", "snapshot_written", "tiers_written"} -> 5
      [] p \in {"readme_written", "error", "exit_0", "exit_1"} -> 6

\* the value of field f of record id as a list, empty while the record does
\* not have the field
FieldOr(h, id, f) == IF id \in DOMAIN h /\ f \in DOMAIN h[id] THEN <<h[id][f]>> ELSE <<>>

\* C25: the stages of a run happen in the order collection, aggregation,
\* classification, ranking, output generation.  No step goes back to an
\* earlier stage, the statements of main are passed once each and in their
\* order, and each stage's data changes only in its own stage: the platform
\* lists and social maps in collection, the aggregated list in aggregation,
\* a record's tier in classification (never once ranking has begun), its
\* composite_score and rank_in_tier in ranking, the CSV and README files in
\* output generation.
C25_StagesInOrder ==
    [][/\ StageOf(pc') >= StageOf(pc)
       /\ pc' # pc
       /\ pc' \notin {"error", "exit_1"} =>
              (pc' = Successor(pc) \/ (pc = "aggregated" /\ pc' = "exit_0"))
       /\ <<github_repos, gitlab_repos, bitbucket_repos, reddit_data, rss_data>>'
              # <<github_repos, gitlab_repos, bitbucket_repos, reddit_data, rss_data>>
              => StageOf(pc) = 1
       /\ aggregated_repos' # aggregated_repos => StageOf(pc) = 2
       /\ \A id \in DOMAIN heap' :
              /\ FieldOr(heap', id, "tier") # FieldOr(heap, id, "tier")
                     => (StageOf(pc) = 3 /\ FieldOr(heap, id, "tier") = <<>>)
              /\ (\E f \in {"composite_score", "rank_in_tier"} :
                      FieldOr(heap', id, f) # FieldOr(heap, id, f))
                     => (StageOf(pc) = 4 /\ FieldOr(heap, id, "composite_score") = <<>>)
       /\ files' \ {"raw"} # files \ {"raw"} => StageOf(pc) = 5]_vars

\* a completed run: every record went through all stages and every output
\* was written
C25_Witness ==
    /\ pc = "exit_0"
    /\ Len(aggregated_repos) >= 2
    /\ \A id \in Range(aggregated_repos) :
           {"reddit_mentions", "tier", "composite_score", "rank_in_tier"}
               \subseteq DOMAIN heap[id]
    /\ established # <<>>
    /\ rising # <<>>
    /\ {"snapshot.csv", "established.csv", "rising.csv", "new.csv", "README.md"}
           \subseteq files

(***************************************************************************)
(* POC mode (checked under SpecMain).                                      *)
(***************************************************************************)
\* C26: in POC mode the number of repository records collected over all
\* platforms and handed to aggregation never exceeds POC_LIMIT.
C26_PocLimitInTotal ==
    (poc_mode /\ pc = "collected") =>
        Len(github_repos) + Len(gitlab_repos) + Len(bitbucket_repos) <= POC_LIMIT

(***************************************************************************)
(* The exits of main (checked under SpecMain).                             *)
(***************************************************************************)
\* the positions of main from the aggregation on
FromAggregation ==
    {"collected", "aggregated", "checked", "classified", "ranked",
     "snapshot_written", "tiers_written", "readme_written", "exit_0"}

\* C29: aggregation is reached only when the GitHub collector returned at
\* least one record; otherwise the run exits with status 1 and nothing is
\* aggregated, classified or written.  So the aggregated list is not empty
\* when it is tested, and the empty README is never generated.
C29_AggregationNeedsGithub ==
    /\ pc \in FromAggregation => github_repos # <<>>
    /\ (pc # "start" /\ github_repos = <<>>) =>
           /\ pc = "exit_1"
           /\ aggregated_repos = <<>>
           /\ established = <<>> /\ rising = <<>> /\ new = <<>>
           /\ files = {}
    /\ pc \in FromAggregation \ {"collected"} => aggregated_repos # <<>>
    /\ "Generated empty README" \notin Range(log)
    /\ pc = "exit_0" => "Completed Successfully" \in Range(log)

\* the aggregated list has just been tested: one GitHub repository and its
\* GitLab duplicate gave one record
C29_Witness ==
    /\ pc = "checked"
    /\ Len(github_repos) = 1
    /\ Len(gitlab_repos) = 1
    /\ Len(aggregated_repos) = 1
    /\ log = <<>>

OutputFiles == {"snapshot.csv", "established.csv", "rising.csv", "new.csv", "README.md"}

\* the output files of the stages after the statement that follows p
FilesOfLaterStages(p) ==
    CASE p = "ranked" -> {"established.csv", "rising.csv", "new.csv", "README.md"}
      [] p = "snapshot_written" -> {"README.md"}
      [] p = "tiers_written" -> {}
      [] OTHER -> OutputFiles

\* C30: when a stage of main raises, the run exits with status 1 and no
\* later stage runs: the step after the failure is the exit, it writes no
\* file and changes no record, and no output of a later stage exists.  A
\* file once written stays written, nothing happens after an exit, and the
\* success banner is logged only in a run in which every stage completed
\* and every output was written.
C30_FailureEndsRun ==
    [][/\ pc \notin {"exit_0", "exit_1"}
       /\ pc = "error" =>
              /\ pc' = "exit_1"
              /\ files' = files
              /\ heap' = heap
              /\ <<aggregated_repos, established, rising, new>>'
                     = <<aggregated_repos, established, rising, new>>
              /\ "Completed Successfully" \notin Range(log')
       /\ pc' = "error" => files' \cap FilesOfLaterStages(pc) = {}
       /\ files \subseteq files'
       /\ "Completed Successfully" \in Range(log') =>
              /\ pc' = "exit_0"
              /\ OutputFiles \subseteq files'
              /\ "FATAL ERROR" \notin Range(log')
       /\ pc' = "exit_1" => "Completed Successfully" \notin Range(log')]_vars

\* a run that failed in the tier CSVs: exit status 1, the snapshot CSV is
\* there, no tier CSV and no README were written, no success banner
C30_Witness ==
    /\ pc = "exit_1"
    /\ "FATAL ERROR" \in Range(log)
    /\ "Completed Successfully" \notin Range(log)
    /\ "snapshot.csv" \in files
    /\ files \cap {"established.csv", "rising.csv", "new.csv", "README.md"} = {}
    /\ established # <<>>

(***************************************************************************)
(* aggregate_data on owners and names that contain the separator "/".      *)
(***************************************************************************)
MaxSlash == 2

\* owners and names with and without "/", in both cases
SlashIdents ==
    { [owner |-> <<"a", "/", "b">>, name |-> <<"c">>,           repo_url |-> "u1"],
      [owner |-> <<"a">>,           name |-> <<"b", "/", "c">>, repo_url |-> "u2"],
      [owner |-> <<"A", "/", "B">>, name |-> <<"C">>,           repo_url |-> "u3"],
      [owner |-> <<"a">>,           name |-> <<"b">>,           repo_url |-> "u4"] }

SlashPool ==
    { SetField(RepoDict(x.owner, x.name, x.repo_url, s, 400), "recent_commits_count", 5) :
          x \in SlashIdents, s \in AggStars }

InitSlash ==
    \E recs \in BoundedSeq(SlashPool, MaxSlash) :
        \E g \in 0..Len(recs) :
            Collected(recs, g, Len(recs) - g, EmptyDict, EmptyDict)

SpecSlash == InitSlash /\ [][Next]_vars

\* the pair (lower(owner), lower(name)) of a record
OwnerNamePair(repo) == <<Lower(repo["owner"]), Lower(repo["name"])>>

\* C27: the records aggregate_data treats as duplicates are exactly those
\* whose owners are equal ignoring case and whose names are equal ignoring
\* case: one record comes back for each (lower(owner), lower(name)) pair
\* of the input, also when owner or name contains "/".
C27_DuplicatesIffPairsEqual ==
    pc = "aggregated" =>
        /\ \A id \in Range(AllRepos) :
               \E k \in DOMAIN aggregated_repos :
                   OwnerNamePair(heap[aggregated_repos[k]]) = OwnerNamePair(heap[id])
        /\ \A j, k \in DOMAIN aggregated_repos :
               OwnerNamePair(heap[aggregated_repos[j]])
                   = OwnerNamePair(heap[aggregated_repos[k]]) => j = k

(***************************************************************************)
(* SpecExtremes: _rank_tier called with each of the three tier names on up *)
(* to MaxExtreme records whose raw values sit at, below, between and above *)
(* the ends of their calibration ranges, or are absent.                    *)
(***************************************************************************)
MaxExtreme == 2

\* the calibration pair _calculate_score passes to _log_scale for each field
RawCalibration ==
    [stars                |-> [min_val |-> 20, max_val |-> 10000],
     recent_commits_count |-> [min_val |-> 1,  max_val |-> 100],
     reddit_mentions      |-> [min_val |-> 0,  max_val |-> 50],
     reddit_upvotes       |-> [min_val |-> 0,  max_val |-> 500],
     web_mentions         |-> [min_val |-> 0,  max_val |-> 10],
     star_velocity_30d    |-> [min_val |-> 0,  max_val |-> 100],
     recent_mentions_30d  |-> [min_val |-> 0,  max_val |-> 20]]

\* the fields each factor reads
FactorFields ==
    [stars           |-> {"stars"},
     recent_activity |-> {"recent_commits_count"},
     social_signals  |-> {"reddit_mentions", "reddit_upvotes", "web_mentions"},
     growth_rate     |-> {"star_velocity_30d", "recent_mentions_30d"}]

FactorOf(f) == CHOOSE k \in DOMAIN FactorFields : f \in FactorFields[k]

\* a value of field f at a place of its calibration range (counts are not
\* negative)
LevelValue(f, level) ==
    LET c == RawCalibration[f] IN
    CASE level = "below" -> Max2(0, c.min_val - 1)
      [] level = "min"   -> c.min_val
      [] level = "mid"   -> (c.min_val + c.max_val) \div 2
      [] level = "max"   -> c.max_val
      [] level = "above" -> c.max_val + 1

\* the record whose fields are at the level chosen for their factor
ExtremeDict(levels) ==
    [f \in DOMAIN RawCalibration |-> LevelValue(f, levels[FactorOf(f)])]
        @@ [owner |-> <<"a">>, name |-> <<"b">>, repo_url |-> "u1", age_days |-> 200]

ExtremePool ==
    { ExtremeDict(levels) : levels \in [DOMAIN FactorFields -> {"min", "max"}] }
        \cup { ExtremeDict([k \in DOMAIN FactorFields |-> level]) :
                   level \in {"below", "mid", "above"} }
        \cup { [owner |-> <<"a">>, name |-> <<"b">>, repo_url |-> "u1", age_days |-> 200] }

InitExtremes ==
    \E recs \in BoundedSeq(ExtremePool, MaxExtreme) :
        \E tier_name \in {"established", "rising", "new"} :
            /\ heap = recs
            /\ github_repos = <<>>
            /\ gitlab_repos = <<>>
            /\ bitbucket_repos = <<>>
            /\ reddit_data = EmptyDict
            /\ rss_data = EmptyDict
            /\ aggregated_repos = <<>>
            /\ established = <<>>
            /\ rising = <<>>
            /\ new = <<>>
            /\ pc = "calling"
            /\ calls = <<[fn |-> "_rank_tier", repos |-> Interval(1, Len(recs)),
                          tier_name |-> tier_name]>>
            /\ rets = <<>>
            /\ files = {}
            /\ log = <<>>
            /\ poc_mode = FALSE

SpecExtremes == InitExtremes /\ [][NextRankTier]_vars

\* the composite score 1.0
ScoreOne == 100 * LogOne

RECURSIVE WeightSum(_, _)
WeightSum(weights, ks) ==
    IF ks = {} THEN 0
    ELSE LET k == CHOOSE x \in ks : TRUE
         IN  weights[k] + WeightSum(weights, ks \ {k})

AllAtOrBelowMin(repo) ==
    \A f \in DOMAIN RawCalibration : Get(repo, f, 0) <= RawCalibration[f].min_val

AllAtOrAboveMax(repo) ==
    \A f \in DOMAIN RawCalibration : Get(repo, f, 0) >= RawCalibration[f].max_val

\* C28: every record ranked in any tier has a composite_score between 0 and
\* 1; the weights of each tier's table sum to 1; the score is 0 when every
\* raw value is at or below its calibration minimum and 1 when every raw
\* value is at or above its maximum.
C28_ScoreInUnitInterval ==
    /\ \A t \in {"established", "rising", "new"} :
           WeightSum(TierWeights(t), DOMAIN TierWeights(t)) = 10
    /\ \A r \in Range(rets) :
           \A id \in Range(r.repos) :
               /\ "composite_score" \in DOMAIN heap[id]
               /\ heap[id]["composite_score"] >= 0
               /\ heap[id]["composite_score"] <= ScoreOne
               /\ AllAtOrBelowMin(heap[id]) => heap[id]["composite_score"] = 0
               /\ AllAtOrAboveMax(heap[id]) => heap[id]["composite_score"] = ScoreOne

\* a rising tier of two records: one with every raw value at its maximum
\* and the score 1, one with every raw value at its minimum and the score 0
C28_Witness ==
    /\ pc = "returned"
    /\ Len(rets) = 1
    /\ rets[1].tier_name = "rising"
    /\ \E a, b \in Range(rets[1].repos) :
           /\ DOMAIN RawCalibration \subseteq DOMAIN heap[a] \cap DOMAIN heap[b]
           /\ \A f \in DOMAIN RawCalibration :
                  /\ heap[a][f] = RawCalibration[f].max_val
                  /\ heap[b][f] = RawCalibration[f].min_val
           /\ heap[a]["composite_score"] = ScoreOne
           /\ heap[b]["composite_score"] = 0
           /\ heap[a]["rank_in_tier"] = 1

====
